---------------------------- MODULE Spec2Model ----------------------------
(***************************************************************************)
(* GTM Alpha: the EPIC scoring, focus classification, recommendation and   *)
(* roadmap engines of the repository, and the handlers that run them.      *)
(*                                                                         *)
(* Strings.  A JavaScript string is modelled as the sequence of the words  *)
(* it is made of when split at single spaces: "" is <<"">>, "a b" is       *)
(* <<"a", "b">>, and joining two strings with a space is \o.  A property   *)
(* that is not sent at all (undefined) is the empty sequence.              *)
(*                                                                         *)
(* Numbers.  Weights are kept as integers: stage weights are multiplied by *)
(* 100 and industry modifiers by 10, and Math.round is computed on them.   *)
(* NaN is a number of its own, outside the range of every other value.     *)
(***************************************************************************)
EXTENDS Integers, Sequences, FiniteSets, TLC

VARIABLES call, ret, now, probe,
          consultationStorage, progressTracking, blobs, invoked, failed

\* what the deployment keeps between requests: the two module-level Maps of
\* mcp.js and the Netlify blob stores; invoked is the set of collaborators
\* the latest request entered, failed the set of those that failed during it
server == <<consultationStorage, progressTracking, blobs>>
vars == <<call, ret, now, probe, server, invoked, failed>>

(***************************************************************************)
(* Bounds of the model.                                                    *)
(***************************************************************************)
MaxWords == 2
MaxTime == 2
MaxPriorities == 2

(***************************************************************************)
(* JavaScript values.                                                      *)
(***************************************************************************)
Absent == <<>>
EmptyStr == <<"">>
Str(w) == <<w>>
Falsy(s) == s = Absent \/ s = EmptyStr
OrElse(s, d) == IF Falsy(s) THEN d ELSE s
\* const { a = d } = input: the default is taken when the field is undefined
DefaultTo(s, d) == IF s = Absent THEN d ELSE s

\* a Map: a function from the keys that were set to their values
EmptyMap == [k \in {} |-> Absent]
MapHas(map, key) == key \in DOMAIN map
MapGet(map, key) == IF key \in DOMAIN map THEN map[key] ELSE Absent
MapSet(map, key, value) ==
  [k \in DOMAIN map \cup {key} |-> IF k = key THEN value ELSE map[k]]

NaN == 0 - 1000000
IsNaN(x) == x = NaN
Plus(a, b) == IF IsNaN(a) \/ IsNaN(b) THEN NaN ELSE a + b
MathMin(a, b) == IF IsNaN(a) \/ IsNaN(b) THEN NaN ELSE IF a < b THEN a ELSE b
MathMax(a, b) == IF IsNaN(a) \/ IsNaN(b) THEN NaN ELSE IF a > b THEN a ELSE b
StrictEq(a, b) == ~IsNaN(a) /\ ~IsNaN(b) /\ a = b
Gt(a, b) == ~IsNaN(a) /\ ~IsNaN(b) /\ a > b
Ge(a, b) == ~IsNaN(a) /\ ~IsNaN(b) /\ a >= b
Lt(a, b) == ~IsNaN(a) /\ ~IsNaN(b) /\ a < b

\* Math.round of n/10 for an integer n >= 0 (round half up)
RoundTenth(n) == (n + 5) \div 10

\* names every object inherits from Object.prototype: table[name] is a
\* function value (truthy) for these, although the table has no such key
ObjectPrototypeKeys == {Str("constructor"), Str("toString"), Str("valueOf"),
                        Str("hasOwnProperty")}

Letters == <<"E", "P", "I", "C">>
LetterSet == {"E", "P", "I", "C"}
Vec(e, p, i, c) == [E |-> e, P |-> p, I |-> i, C |-> c]
NaNScores == Vec(NaN, NaN, NaN, NaN)

(***************************************************************************)
(* Words.  Facts about the words the model draws its texts from and the    *)
(* words of the keywords: <<k, w>> \in Infix when k occurs inside w,       *)
(* Prefix when w starts with k, Suffix when w ends with k (k # w).         *)
(***************************************************************************)
Infix == {<<"channel", "channels">>, <<"market", "marketing">>,
          <<"market", "marketplace">>, <<"partners", "partnership">>,
          <<"pmf", "bootstrapped-pmf">>, <<"pre-seed", "venture-pre-seed">>,
          <<"seed", "bootstrapped-seed-equivalent">>, <<"seed", "pre-seed">>,
          <<"seed", "venture-pre-seed">>, <<"seed", "venture-seed">>,
          <<"series", "bootstrapped-series-equivalent">>,
          <<"series", "series-a">>, <<"series", "venture-series-a">>,
          <<"series", "venture-series-b">>}
Prefix == {<<"channel", "channels">>, <<"market", "marketing">>,
           <<"market", "marketplace">>, <<"partners", "partnership">>,
           <<"series", "series-a">>}
Suffix == {<<"pmf", "bootstrapped-pmf">>, <<"pre-seed", "venture-pre-seed">>,
           <<"seed", "pre-seed">>, <<"seed", "venture-pre-seed">>,
           <<"seed", "venture-seed">>}

LowerWord(w) ==
  CASE w = "We" -> "we"
    [] w = "Enterprise" -> "enterprise"
    [] w = "B2B" -> "b2b"
    [] w = "SaaS" -> "saas"
    [] w = "Technology" -> "technology"
    [] w = "Finance" -> "finance"
    [] w = "Healthcare" -> "healthcare"
    [] w = "E-commerce" -> "e-commerce"
    [] w = "Education" -> "education"
    [] w = "Manufacturing" -> "manufacturing"
    [] w = "Consulting" -> "consulting"
    [] w = "Marketplace" -> "marketplace"
    [] w = "Consumer" -> "consumer"
    [] w = "Retail" -> "retail"
    [] w = "General" -> "general"
    [] w = "Aerospace" -> "aerospace"
    [] w = "Growth" -> "growth"
    [] w = "Scale" -> "scale"
    [] w = "Mature" -> "mature"
    [] w = "MVP" -> "mvp"
    [] w = "Pre-launch" -> "pre-launch"
    [] w = "Early" -> "early"
    [] w = "Traction" -> "traction"
    [] w = "Acme" -> "acme"
    [] w = "Acmos" -> "acmos"
    [] w = "A&B" -> "a&b"
    [] w = "A+B" -> "a+b"
    [] w = "Ana" -> "ana"
    [] w = "Lead" -> "lead"
    [] w = "Generation" -> "generation"
    [] w = "Community" -> "community"
    [] w = "Building" -> "building"
    [] OTHER -> w

toLowerCase(s) == [i \in 1..Len(s) |-> LowerWord(s[i])]

HasWord(w, k) == k = w \/ <<k, w>> \in Infix
StartsWith(w, k) == k = w \/ <<k, w>> \in Prefix
EndsWith(w, k) == k = w \/ <<k, w>> \in Suffix

\* a variant of includes that tests the whole text for equality with the keyword
includesWhole(text, kw) == text = kw

\* String.prototype.includes: the keyword kw (one or more words) occurs in text
includes(text, kw) ==
  IF Len(kw) = 1
  THEN \E i \in 1..Len(text) : HasWord(text[i], kw[1])
  ELSE \E i \in 1..(Len(text) - Len(kw) + 1) :
         /\ EndsWith(text[i], kw[1])
         /\ StartsWith(text[i + Len(kw) - 1], kw[Len(kw)])
         /\ \A j \in 2..(Len(kw) - 1) : text[i + j - 1] = kw[j]

(***************************************************************************)
(* analyze.js: GTM_ALPHA_ENGINE                                            *)
(***************************************************************************)
stageWeights ==
  (Str("bootstrapped-idea") :> Vec(20, 30, 30, 20)) @@
  (Str("bootstrapped-pmf") :> Vec(25, 35, 25, 15)) @@
  (Str("bootstrapped-seed-equivalent") :> Vec(30, 30, 25, 15)) @@
  (Str("bootstrapped-series-equivalent") :> Vec(35, 25, 25, 15)) @@
  (Str("venture-seed") :> Vec(30, 35, 20, 15)) @@
  (Str("venture-series-a") :> Vec(40, 25, 20, 15)) @@
  (Str("venture-series-b") :> Vec(45, 20, 20, 15)) @@
  (Str("growth") :> Vec(40, 30, 20, 10)) @@
  (Str("scale") :> Vec(50, 20, 20, 10)) @@
  (Str("enterprise") :> Vec(60, 15, 15, 10))

industryModifiers ==
  (Str("Technology") :> Vec(12, 13, 11, 10)) @@
  (Str("SaaS") :> Vec(11, 14, 12, 11)) @@
  (Str("E-commerce") :> Vec(10, 12, 13, 12)) @@
  (Str("Healthcare") :> Vec(13, 10, 11, 9)) @@
  (Str("Finance") :> Vec(14, 10, 10, 8)) @@
  (Str("Education") :> Vec(11, 11, 12, 13)) @@
  (Str("Manufacturing") :> Vec(13, 9, 10, 8)) @@
  (Str("Consulting") :> Vec(12, 8, 13, 14))

challengeKeywords == <<
  [kw |-> <<"lead", "generation">>, adj |-> Vec(0, 5, 15, 5)],
  [kw |-> <<"customer", "acquisition">>, adj |-> Vec(5, 10, 10, 0)],
  [kw |-> <<"enterprise", "sales">>, adj |-> Vec(20, 0, 5, 0)],
  [kw |-> <<"market", "positioning">>, adj |-> Vec(10, 5, 10, 10)],
  [kw |-> <<"product-led", "growth">>, adj |-> Vec(0, 20, 0, 5)],
  [kw |-> <<"sales", "cycle">>, adj |-> Vec(15, 5, 5, 0)],
  [kw |-> <<"competitive">>, adj |-> Vec(10, 5, 10, 5)],
  [kw |-> <<"pricing">>, adj |-> Vec(5, 15, 5, 0)],
  [kw |-> <<"messaging">>, adj |-> Vec(5, 0, 15, 5)],
  [kw |-> <<"brand", "awareness">>, adj |-> Vec(5, 0, 15, 10)],
  [kw |-> <<"partnership">>, adj |-> Vec(20, 0, 0, 5)],
  [kw |-> <<"community">>, adj |-> Vec(0, 0, 5, 20)],
  [kw |-> <<"retention">>, adj |-> Vec(0, 15, 5, 10)],
  [kw |-> <<"expansion">>, adj |-> Vec(10, 10, 5, 0)] >>

\* table[key] || fallback, for a table of score vectors; a name inherited
\* from Object.prototype is truthy and has no E, P, I, C: every weight read
\* from it is undefined, which is NaN in arithmetic
LookupOr(table, key, fallback) ==
  IF key \in DOMAIN table THEN table[key]
  ELSE IF key \in ObjectPrototypeKeys THEN NaNScores
  ELSE fallback

\* scores.X = Math.min(100, scores.X + adjustment.X) for every keyword found
RECURSIVE ApplyChallengeAdjustments(_, _, _)
ApplyChallengeAdjustments(scores, challengeText, k) ==
  IF k > Len(challengeKeywords) THEN scores
  ELSE LET adjustment == challengeKeywords[k].adj
           next == IF includes(challengeText, challengeKeywords[k].kw)
                   THEN [l \in LetterSet |->
                           MathMin(100, Plus(scores[l], adjustment[l]))]
                   ELSE scores
       IN ApplyChallengeAdjustments(next, challengeText, k + 1)

\* a variant of the scorer whose result is seeded from the clock
ClockSeededScores(inputData) == Vec(now, now, now, now)

RoundProduct(w, m) == IF IsNaN(w) \/ IsNaN(m) THEN NaN ELSE RoundTenth(w * m)

analyzeEPICFramework(inputData) ==
  LET baseWeights == LookupOr(stageWeights, inputData.business_stage,
                              stageWeights[Str("bootstrapped-pmf")])
      industryMod == LookupOr(industryModifiers, inputData.industry,
                              Vec(10, 10, 10, 10))
      scores == [l \in LetterSet |-> RoundProduct(baseWeights[l], industryMod[l])]
      challengeText == toLowerCase(OrElse(inputData.gtm_challenge, EmptyStr))
  IN ApplyChallengeAdjustments(scores, challengeText, 1)

\* Object.entries(scores).sort((a, b) => b[1] - a[1]): the letters by falling
\* score; the sort is stable, so equal scores keep the order E, P, I, C
LetterIndex(l) == CHOOSE i \in 1..4 : Letters[i] = l
SortedPosition(scores, l) ==
  1 + Cardinality({m \in LetterSet :
                     \/ Gt(scores[m], scores[l])
                     \/ /\ ~Gt(scores[l], scores[m])
                        /\ LetterIndex(m) < LetterIndex(l)})
sortedScores(scores) ==
  [i \in 1..4 |-> CHOOSE l \in LetterSet : SortedPosition(scores, l) = i]

\* a variant of MaxOfScores that takes Math.min
MinOfScores(scores) ==
  MathMin(MathMin(scores.E, scores.P), MathMin(scores.I, scores.C))

MaxOfScores(scores) ==
  MathMax(MathMax(scores.E, scores.P), MathMax(scores.I, scores.C))

EcosystemFocus == "Ecosystem & ABM-led Sales Motion"
ProductFocus == "Product-Led Growth Acceleration"
InboundFocus == "Inbound & Outbound Demand Generation"
CommunityFocus == "Community-Led Growth Strategy"

secondaryMap(letter) ==
  CASE letter = "E" -> EcosystemFocus
    [] letter = "P" -> ProductFocus
    [] letter = "I" -> InboundFocus
    [] letter = "C" -> CommunityFocus

\* a variant of the chain that tests P before E
primaryFocusPFirst(epicScores) ==
  LET maxScore == MaxOfScores(epicScores)
  IN IF StrictEq(epicScores.P, maxScore) THEN ProductFocus
     ELSE IF StrictEq(epicScores.E, maxScore) THEN EcosystemFocus
     ELSE IF StrictEq(epicScores.I, maxScore) THEN InboundFocus
     ELSE CommunityFocus

\* the if / else-if chain of generateStrategicAnalysis
primaryFocusOf(epicScores) ==
  LET maxScore == MaxOfScores(epicScores)
  IN IF StrictEq(epicScores.E, maxScore) THEN EcosystemFocus
     ELSE IF StrictEq(epicScores.P, maxScore) THEN ProductFocus
     ELSE IF StrictEq(epicScores.I, maxScore) THEN InboundFocus
     ELSE CommunityFocus

secondaryFocusOf(epicScores) == secondaryMap(sortedScores(epicScores)[2])

\* a variant of slice that keeps the whole list
sliceNothing(list, n) == list

slice(list, n) == IF Len(list) <= n THEN list ELSE SubSeq(list, 1, n)

\* digital presence: null, or the analysis of the URLs that were sent
NoDigital == [present |-> FALSE]

calculateBasicDigitalScore(inputData) ==
  MathMin(100, 40 + (IF Falsy(inputData.website_url) THEN 0 ELSE 30)
                  + (IF Falsy(inputData.linkedin_url) THEN 0 ELSE 20)
                  + (IF Falsy(inputData.twitter_url) THEN 0 ELSE 10))

generateBasicDigitalRecommendations(inputData) ==
  (IF Falsy(inputData.website_url)
   THEN <<[action |-> "Develop professional website with clear value proposition",
           priority |-> "high", epic_component |-> "Inbound"]>>
   ELSE <<>>)
  \o
  (IF Falsy(inputData.linkedin_url)
   THEN <<[action |-> "Establish LinkedIn company presence with regular thought leadership content",
           priority |-> "medium", epic_component |-> "Community"]>>
   ELSE <<>>)

analyzeDigitalPresence(inputData) ==
  IF Falsy(inputData.website_url) /\ Falsy(inputData.linkedin_url)
  THEN NoDigital
  ELSE [present |-> TRUE,
        digital_maturity_score |-> calculateBasicDigitalScore(inputData),
        recommendations |-> generateBasicDigitalRecommendations(inputData)]

SelectHigh(recs) == SelectSeq(recs, LAMBDA rec : rec.priority = "high")

generateActionableRecommendations(inputData, epicScores, digitalAnalysis) ==
  LET forE == IF Ge(epicScores.E, 70)
              THEN <<"Implement Account-Based Marketing (ABM) for high-value enterprise prospects",
                     "Build strategic partnership ecosystem to leverage unique data advantages",
                     "Develop relationship intelligence system for sales acceleration">>
              ELSE <<>>
      forP == IF Ge(epicScores.P, 70)
              THEN <<"Engineer product as primary GTM engine with built-in viral loops",
                     "Optimize user onboarding and activation for self-service conversion",
                     "Implement usage-based pricing model aligned with product value">>
              ELSE <<>>
      forI == IF Ge(epicScores.I, 70)
              THEN <<"Launch integrated content marketing targeting specific buyer personas",
                     "Implement hyper-personalized outbound sequences based on buyer signals",
                     "Optimize conversion funnel with mental velocity principles">>
              ELSE <<>>
      forC == IF Ge(epicScores.C, 70)
              THEN <<"Build industry community through thought leadership and expert positioning",
                     "Create customer advocacy program with authentic testimonials",
                     "Develop content strategy around community-driven insights">>
              ELSE <<>>
      topDigitalRecs ==
        IF digitalAnalysis.present
        THEN LET top == slice(SelectHigh(digitalAnalysis.recommendations), 2)
             IN [i \in 1..Len(top) |-> <<top[i].action, top[i].epic_component, "focus">>]
        ELSE <<>>
      forIndustry ==
        IF inputData.industry = Str("SaaS")
        THEN <<"Focus on product-led growth with freemium-to-paid conversion optimization">>
        ELSE IF inputData.industry = Str("Healthcare")
        THEN <<"Emphasize compliance-first messaging and regulatory partnership ecosystem">>
        ELSE IF inputData.industry = Str("Finance")
        THEN <<"Build trust through thought leadership and regulatory compliance expertise">>
        ELSE <<>>
  IN slice(forE \o forP \o forI \o forC \o topDigitalRecs \o forIndustry, 8)

generateGTMRoadmap(inputData, primaryFocus, secondaryFocus) ==
  IF primaryFocus = ProductFocus
  THEN [days_30 |-> <<"Audit current user onboarding flow and identify friction points",
                      "Implement product usage analytics and user tracking",
                      "Create self-service trial experience design">>,
        days_60 |-> <<"Launch optimized onboarding flow with progressive disclosure",
                      "Implement usage-based engagement triggers and expansion prompts",
                      "A/B test pricing page and conversion funnel optimization">>,
        first_quarter |-> <<"Scale successful PLG motions with automated user journey optimization",
                            "Launch referral program and viral growth mechanisms",
                            "Measure and optimize product-qualified lead (PQL) conversion">>,
        second_quarter |-> <<"Implement advanced product-led sales (PLS) hybrid model",
                             "Launch enterprise PLG features with white-glove onboarding",
                             "Optimize product-market fit based on comprehensive usage analytics">>]
  ELSE IF primaryFocus = EcosystemFocus
  THEN [days_30 |-> <<"Map current partner ecosystem and identify strategic gaps",
                      "Develop ideal customer profile (ICP) for ABM targeting",
                      "Research and prioritize top 50 enterprise prospects">>,
        days_60 |-> <<"Launch pilot ABM campaigns for top 20 enterprise accounts",
                      "Establish strategic partnerships with complementary solution providers",
                      "Implement relationship intelligence tools and account mapping">>,
        first_quarter |-> <<"Scale ABM approach with personalized account journeys",
                            "Expand partner ecosystem with joint go-to-market initiatives",
                            "Launch partner enablement program with co-marketing materials">>,
        second_quarter |-> <<"Develop enterprise channel partner program with certification",
                             "Launch strategic alliance partnerships with technology integrations",
                             "Measure partnership-driven pipeline and optimize ROI">>]
  ELSE IF primaryFocus = InboundFocus
  THEN [days_30 |-> <<"Complete buyer persona research and journey mapping",
                      "Audit content strategy and identify high-intent keywords",
                      "Create editorial calendar aligned with sales cycles">>,
        days_60 |-> <<"Launch thought leadership content series targeting decision makers",
                      "Implement lead scoring and marketing automation workflows",
                      "Begin hyper-personalized outbound campaigns based on content engagement">>,
        first_quarter |-> <<"Scale content distribution across multiple channels and platforms",
                            "Optimize conversion paths with A/B tested landing pages",
                            "Implement attribution modeling for content-driven pipeline">>,
        second_quarter |-> <<"Launch account-based content strategy for enterprise prospects",
                             "Implement advanced marketing automation with predictive scoring",
                             "Develop thought leadership speaking and industry recognition strategy">>]
  ELSE [days_30 |-> <<"Define community vision and core value proposition",
                      "Research community platforms and engagement strategies",
                      "Create founding member outreach and onboarding process">>,
        days_60 |-> <<"Launch community with high-value content and expert positioning",
                      "Implement community engagement and moderation workflows",
                      "Begin thought leadership content creation from community insights">>,
        first_quarter |-> <<"Scale community growth with member-driven content and advocacy",
                            "Launch community-driven product feedback and development cycles",
                            "Measure community engagement impact on sales and retention metrics">>,
        second_quarter |-> <<"Develop community-led customer success and expansion programs",
                             "Launch industry events and community-driven thought leadership",
                             "Implement community influence on product roadmap and strategy">>]

generateDigitalInsights(digitalAnalysis) ==
  IF ~digitalAnalysis.present THEN [present |-> FALSE]
  ELSE [present |-> TRUE,
        digital_maturity_level |->
          IF digitalAnalysis.digital_maturity_score > 70 THEN "Advanced"
          ELSE IF digitalAnalysis.digital_maturity_score > 50 THEN "Developing"
          ELSE "Basic"]

generateStrategicAnalysis(inputData, epicScores, digitalAnalysis) ==
  LET primaryFocus == primaryFocusOf(epicScores)
      secondaryFocus == secondaryFocusOf(epicScores)
  IN [primaryFocus |-> primaryFocus,
      secondaryFocus |-> secondaryFocus,
      insights |-> <<inputData.business_stage, primaryFocus>>,
      recommendations |->
        generateActionableRecommendations(inputData, epicScores, digitalAnalysis),
      roadmap |-> generateGTMRoadmap(inputData, primaryFocus, secondaryFocus),
      digitalInsights |-> generateDigitalInsights(digitalAnalysis)]

(***************************************************************************)
(* The keyword-counting scorers of the MCP servers                         *)
(***************************************************************************)
epicFrameworkKeywords(component) ==
  CASE component = "E" ->
         << <<"partners">>, <<"ecosystem">>, <<"abm">>, <<"enterprise">>,
            <<"integration">>, <<"channel">>, <<"alliances">>, <<"b2b">> >>
    [] component = "P" ->
         << <<"product-led">>, <<"plg">>, <<"user", "experience">>,
            <<"onboarding">>, <<"activation">>, <<"self-serve">>, <<"viral">>,
            <<"freemium">> >>
    [] component = "I" ->
         << <<"content">>, <<"demand">>, <<"marketing">>, <<"channels">>,
            <<"campaigns">>, <<"seo">>, <<"paid">>, <<"outbound">>,
            <<"inbound">> >>
    [] component = "C" ->
         << <<"community">>, <<"advocacy">>, <<"engagement">>, <<"loyalty">>,
            <<"referrals">>, <<"events">>, <<"network">>, <<"social">> >>

epicFrameworkName(component) ==
  CASE component = "E" -> "Ecosystem & ABM-led Sales Motion"
    [] component = "P" -> "Product-Led Growth Acceleration"
    [] component = "I" -> "Inbound & Outbound Demand Generation"
    [] component = "C" -> "Community-Led Advocacy & Engagement"

\* the component names of mcp-sse.js
sseFrameworkName(component) ==
  CASE component = "E" -> "Ecosystem and ABM-led Sales Motion"
    [] component = "P" -> "Product-Led Growth Acceleration"
    [] component = "I" -> "Inbound and Outbound Demand Generation"
    [] component = "C" -> "Community-Led Advocacy and Engagement"

\* keywords.forEach(keyword => { if (text.includes(keyword)) scores[component] += 1 })
KeywordHits(text, component) ==
  LET keywords == epicFrameworkKeywords(component)
  IN Cardinality({k \in 1..Len(keywords) : includes(text, keywords[k])})

KeywordScores(text) == [component \in LetterSet |-> KeywordHits(text, component)]

Bonus(cond) == IF cond THEN 1 ELSE 0

\* a value written into a template literal or joined with +
TemplateStr(s) == IF s = Absent THEN Str("undefined") ELSE s

\* the default 'P' taken for every score vector
FindPrimaryDefault(scores) == "P"

\* Object.keys(scores).find(key => scores[key] === maxScore) || 'P'
FindPrimary(scores) ==
  LET maxScore == MaxOfScores(scores)
      hits == {i \in 1..4 : StrictEq(scores[Letters[i]], maxScore)}
  IN IF hits = {} THEN "P"
     ELSE Letters[CHOOSE i \in hits : \A j \in hits : i <= j]

TypeError == [exception |-> "TypeError"]
Threw(value) == "exception" \in DOMAIN value

\* mcp-sse.js
analyzeEPIC(challenge, industry, stage) ==
  LET text == toLowerCase(TemplateStr(challenge) \o TemplateStr(industry))
      counted == KeywordScores(text)
      scores ==
        [counted EXCEPT
           !.P = @ + Bonus(~Falsy(stage) /\ includes(stage, <<"seed">>)),
           !.E = @ + Bonus(~Falsy(stage) /\ includes(stage, <<"series">>))
                   + Bonus(includes(text, <<"enterprise">>) \/ includes(text, <<"b2b">>))]
      primaryFocus == FindPrimary(scores)
  IN [scores |-> scores, primaryFocus |-> primaryFocus,
      recommendation |-> sseFrameworkName(primaryFocus)]

\* a scorer that searches the challenge text alone
analyzeChallengeAlone(challenge, companyDescription, industry, businessStage) ==
  LET scores == KeywordScores(toLowerCase(TemplateStr(challenge)))
  IN [scores |-> scores, primaryFocus |-> FindPrimary(scores)]

\* the stdio server (businessStage?.includes)
analyzeEPICScoresStdio(challenge, companyDescription, industry, businessStage) ==
  LET text == toLowerCase(TemplateStr(challenge) \o TemplateStr(companyDescription)
                          \o TemplateStr(industry))
      counted == KeywordScores(text)
      scores ==
        [counted EXCEPT
           !.P = @ + Bonus(businessStage # Absent /\ includes(businessStage, <<"seed">>))
                   + Bonus(includes(text, <<"consumer">>) \/ includes(text, <<"b2c">>)),
           !.E = @ + Bonus(businessStage # Absent /\ includes(businessStage, <<"series">>))
                   + Bonus(includes(text, <<"enterprise">>) \/ includes(text, <<"b2b">>))]
  IN [scores |-> scores, primaryFocus |-> FindPrimary(scores)]

\* epic-scores.js, GTM_CONSULTANT
analyzeEPICScores(challenge, companyDescription, industry, businessStage) ==
  LET text == toLowerCase(TemplateStr(challenge) \o TemplateStr(companyDescription)
                          \o TemplateStr(industry))
      counted == KeywordScores(text)
      scores ==
        [counted EXCEPT
           !.P = @ + Bonus(~Falsy(businessStage)
                           /\ (\/ includes(businessStage, <<"pre-seed">>)
                               \/ includes(businessStage, <<"seed">>)))
                   + Bonus(includes(text, <<"consumer">>) \/ includes(text, <<"b2c">>)),
           !.E = @ + Bonus(~Falsy(businessStage) /\ includes(businessStage, <<"series">>))
                   + Bonus(includes(text, <<"enterprise">>) \/ includes(text, <<"b2b">>))]
  IN [scores |-> scores, primaryFocus |-> FindPrimary(scores)]

\* class GTMAlphaConsultant: the stage test is
\*   businessStage && businessStage.includes('pre-seed') || businessStage.includes('seed')
\* so the second includes is called whenever the first conjunction is falsy
analyzeEPICScoresApify(challenge, companyDescription, industry, businessStage) ==
  LET text == toLowerCase(TemplateStr(challenge) \o TemplateStr(companyDescription)
                          \o TemplateStr(industry))
      counted == KeywordScores(text)
      preSeed == ~Falsy(businessStage) /\ includes(businessStage, <<"pre-seed">>)
      scores ==
        [counted EXCEPT
           !.P = @ + Bonus(preSeed \/ includes(businessStage, <<"seed">>))
                   + Bonus(includes(text, <<"consumer">>) \/ includes(text, <<"b2c">>)),
           !.E = @ + Bonus(~Falsy(businessStage) /\ includes(businessStage, <<"series">>))
                   + Bonus(includes(text, <<"enterprise">>) \/ includes(text, <<"b2b">>))]
  IN IF businessStage = Absent THEN TypeError
     ELSE [scores |-> scores, primaryFocus |-> FindPrimary(scores)]

(***************************************************************************)
(* The three tools of the MCP servers (mcp-sse.js and the stdio server)    *)
(***************************************************************************)
CalendlyLink == "https://calendly.com/shashwat-gtmhelix/45min"

\* consultation_output is a text; the model keeps the parts it is built from

\* mcp-sse.js: the arguments are defaulted with ||, the description is not read
generateConsultationSse(args) ==
  LET client_name == OrElse(args.client_name, <<"Valued", "Client">>)
      gtm_challenge == OrElse(args.gtm_challenge, EmptyStr)
      business_stage == OrElse(args.business_stage, Str("growth"))
      industry == OrElse(args.industry, Str("Technology"))
      analysis == analyzeEPIC(gtm_challenge, industry, business_stage)
  IN [consultation_output |->
        [thank_you |-> client_name, primary_focus |-> analysis.recommendation,
         epic_scores |-> analysis.scores, deeper_consultation |-> CalendlyLink],
      epic_scores |-> analysis.scores,
      primary_focus |-> analysis.recommendation]

\* the stdio server: the arguments are defaulted by destructuring
generateConsultationStdio(input) ==
  LET client_name == DefaultTo(input.client_name, <<"Valued", "Client">>)
      company_description == DefaultTo(input.company_description, EmptyStr)
      gtm_challenge == DefaultTo(input.gtm_challenge, EmptyStr)
      business_stage == DefaultTo(input.business_stage, Str("growth"))
      industry == DefaultTo(input.industry, Str("Technology"))
      epicAnalysis == analyzeEPICScoresStdio(gtm_challenge, company_description,
                                             industry, business_stage)
      primaryComponent == epicFrameworkName(epicAnalysis.primaryFocus)
  IN [consultation_output |->
        [thank_you |-> client_name, primary_focus |-> primaryComponent,
         epic_scores |-> epicAnalysis.scores, core_insight |-> "corePhilosophy",
         methodology |-> "gtmAlphaMethodology",
         deeper_consultation |-> CalendlyLink],
      epic_scores |-> epicAnalysis.scores,
      primary_focus |-> primaryComponent]

\* epicFramework[focus] || epicFramework.P
FocusComponent(focus) ==
  IF Len(focus) = 1 /\ focus[1] \in LetterSet THEN focus[1] ELSE "P"

generateRoadmapSse(focus, timeframe) ==
  LET name == sseFrameworkName(FocusComponent(focus))
  IN [timeframe |-> OrElse(timeframe, Str("90-day")),
      primary_focus |-> name,
      action_plan |->
        [immediate |-> <<"Conduct GTM audit", "Map buyer journey",
                         "Align teams on EPIC priorities">>,
         short_term |-> <<<<"Implement", name, "initiatives">>,
                          "Establish success metrics", "Create feedback loops">>,
         medium_term |-> <<"Scale successful experiments",
                           "Build systematic GTM approach",
                           "Optimize competitive advantage">>]]

generateRoadmapStdio(primaryFocus, timeframe) ==
  LET name == epicFrameworkName(FocusComponent(primaryFocus))
  IN [timeframe |-> DefaultTo(timeframe, Str("90-day")),
      primary_focus |-> name,
      action_plan |->
        [immediate |-> <<"Conduct mental velocity audit of current buyer journey",
                         "Map decision dead zones in your GTM process",
                         "Align sales and marketing on EPIC framework priorities">>,
         short_term |-> <<<<"Implement", name, "optimization initiatives">>,
                          "Establish success metrics for mental velocity tracking",
                          "Create feedback loops for continuous GTM optimization">>,
         medium_term |-> <<"Scale successful experiments across EPIC components",
                           "Build systematic approach to GTM operating system",
                           "Measure and optimize competitive advantage sustainability">>],
      success_metrics |-> <<"Mental velocity improvement (2-3x target)",
                            "GTM efficiency increase (30%+ target)",
                            "Customer acquisition cost reduction (15-25%)">>]

UnknownTool == [exception |-> "Unknown tool"]

\* a mutation of handleToolCall: the answer tells how much is stored
handleToolCallCounting(name, args) ==
  [name |-> name,
   stored |-> Cardinality(DOMAIN consultationStorage) + Cardinality(DOMAIN blobs)]

\* mcp-sse.js
handleToolCall(name, args) ==
  CASE name = "gtm_consultation" -> generateConsultationSse(args)
    [] name = "epic_audit" ->
         analyzeEPIC(OrElse(args.challenge, EmptyStr), OrElse(args.industry, EmptyStr),
                     OrElse(args.business_stage, EmptyStr))
    [] name = "generate_roadmap" ->
         generateRoadmapSse(OrElse(args.primary_focus, Str("P")),
                            OrElse(args.timeframe, Str("90-day")))
    [] OTHER -> UnknownTool

\* the stdio server's CallTool handler
CallTool(name, args) ==
  CASE name = "gtm_consultation" -> generateConsultationStdio(args)
    [] name = "epic_audit" ->
         LET result == analyzeEPICScoresStdio(OrElse(args.challenge, EmptyStr), EmptyStr,
                                              OrElse(args.industry, EmptyStr),
                                              OrElse(args.business_stage, EmptyStr))
         IN [epic_scores |-> result.scores,
             primary_focus |-> result.primaryFocus,
             recommendation |-> epicFrameworkName(result.primaryFocus)]
    [] name = "generate_roadmap" ->
         generateRoadmapStdio(OrElse(args.primary_focus, Str("P")),
                              OrElse(args.timeframe, Str("90-day")))
    [] OTHER -> UnknownTool

\* a request body that JSON.parse rejects
Malformed == [malformed |-> TRUE]
IsMalformed(body) == "malformed" \in DOMAIN body

ToolNames == <<"gtm_consultation", "epic_audit", "generate_roadmap">>

\* the arguments object {}: every field undefined
NoArguments ==
  [client_name |-> Absent, company_description |-> Absent, gtm_challenge |-> Absent,
   challenge |-> Absent, business_stage |-> Absent, industry |-> Absent,
   primary_focus |-> Absent, timeframe |-> Absent]

\* the JSON value null where an id is expected: a value apart from every
\* id a request carries
JsonNull == 0 - 1

JsonRpcParseError == 0 - 32700
JsonRpcMethodNotFound == 0 - 32601

\* mcp-sse.js: the HTTP handler.  The text of a tool result is the JSON of
\* the value the tool returned.
mcpSseHandler(req) ==
  IF req.method = "OPTIONS" THEN [status |-> 200]
  ELSE IF req.method = "GET"
  THEN [status |-> 200,
        body |-> [name |-> "gtm-alpha-mcp-server", tools |-> ToolNames]]
  ELSE IF req.method = "POST"
  THEN IF IsMalformed(req.body)
       THEN [status |-> 500,
             body |-> [jsonrpc |-> "2.0", id |-> JsonNull,
                       error |-> [code |-> JsonRpcParseError]]]
       ELSE LET body == req.body
            IN CASE body.method = "initialize" ->
                      [status |-> 200,
                       body |-> [jsonrpc |-> "2.0", id |-> body.id,
                                 result |-> [protocolVersion |-> "2024-11-05"]]]
                 [] body.method = "tools/list" ->
                      [status |-> 200,
                       body |-> [jsonrpc |-> "2.0", id |-> body.id,
                                 result |-> [tools |-> ToolNames]]]
                 [] body.method = "tools/call" ->
                      LET result == handleToolCall(body.params.name,
                                                   body.params.arguments)
                      IN IF Threw(result)
                         THEN [status |-> 500,
                               body |-> [jsonrpc |-> "2.0", id |-> JsonNull,
                                         error |-> [code |-> JsonRpcParseError]]]
                         ELSE [status |-> 200,
                               body |-> [jsonrpc |-> "2.0", id |-> body.id,
                                         result |-> [content |-> <<[type |-> "text",
                                                                    text |-> result]>>]]]
                 [] OTHER ->
                      [status |-> 200,
                       body |-> [jsonrpc |-> "2.0", id |-> body.id,
                                 error |-> [code |-> JsonRpcMethodNotFound]]]
  ELSE [status |-> 405, body |-> [error |-> "Method not allowed"]]

(***************************************************************************)
(* epic-scores.js: the dynamic scorer                                      *)
(***************************************************************************)
industryAdjustments ==
  (Str("SaaS") :> Vec(10, 20, 5, 5)) @@
  (Str("Finance") :> Vec(20, 0 - 10, 15, 0 - 5)) @@
  (Str("Healthcare") :> Vec(15, 0 - 5, 10, 0)) @@
  (Str("E-commerce") :> Vec(5, 10, 15, 10)) @@
  (Str("Education") :> Vec(10, 5, 5, 15)) @@
  (Str("Marketplace") :> Vec(20, 5, 10, 15)) @@
  (Str("Consumer") :> Vec(0, 15, 20, 20)) @@
  (Str("B2B") :> Vec(15, 5, 10, 5)) @@
  (Str("Enterprise") :> Vec(25, 0 - 5, 15, 0)) @@
  (Str("Technology") :> Vec(10, 15, 5, 10)) @@
  (Str("Retail") :> Vec(5, 10, 20, 15)) @@
  (Str("General") :> Vec(5, 5, 5, 5))

stageAdjustments ==
  (Str("Pre-launch") :> Vec(0 - 10, 5, 0 - 15, 10)) @@
  (Str("MVP") :> Vec(0 - 5, 10, 0 - 10, 15)) @@
  (<<"Early", "Traction">> :> Vec(0, 15, 0, 10)) @@
  (Str("Growth") :> Vec(10, 10, 15, 5)) @@
  (Str("Scale") :> Vec(15, 5, 20, 0)) @@
  (Str("Mature") :> Vec(20, 0, 15, 0 - 5)) @@
  (Str("Enterprise") :> Vec(25, 0 - 5, 15, 0 - 10))

AddVec(a, b) == [l \in LetterSet |-> Plus(a[l], b[l])]

\* the digits of a numeral, read as a number; NaN when there is no digit
DigitsOf(word) ==
  CASE word = "0" -> 0
    [] word = "2" -> 2
    [] word = "5" -> 5
    [] word = "20" -> 20
    [] word = "50" -> 50
    [] word = "100" -> 100
    [] word = "500" -> 500
    [] word = "501" -> 501
    [] word = "999" -> 999
    [] word = "1000" -> 1000
    [] word = "$5,000" -> 5000
    [] word = "20000" -> 20000
    [] word = "49999" -> 49999
    [] word = "100000" -> 100000
    [] OTHER -> NaN

\* parseInt(x) || fallback
ParseIntOr(s, fallback) ==
  LET n == DigitsOf(s[1])
  IN IF IsNaN(n) \/ n = 0 THEN fallback ELSE n

teamSizeAdjustment(data) ==
  IF Falsy(data.team_size) THEN Vec(0, 0, 0, 0)
  ELSE LET size == ParseIntOr(data.team_size, 10)
       IN IF size <= 5 THEN Vec(0 - 5, 10, 0, 5)
          ELSE IF size <= 20 THEN Vec(0, 5, 5, 0)
          ELSE IF size <= 100 THEN Vec(5, 0, 10, 0)
          ELSE IF size <= 500 THEN Vec(10, 0 - 5, 15, 0)
          ELSE Vec(15, 0 - 10, 10, 0)

budgetAdjustment(data) ==
  IF Falsy(data.monthly_budget) THEN Vec(0, 0, 0, 0)
  ELSE LET budget == ParseIntOr(data.monthly_budget, 5000)
       IN IF budget < 1000 THEN Vec(0, 10, 0 - 10, 10)
          ELSE IF budget < 5000 THEN Vec(0, 5, 0, 5)
          ELSE IF budget < 20000 THEN Vec(0, 5, 10, 0)
          ELSE IF budget < 50000 THEN Vec(10, 0, 15, 0)
          ELSE Vec(20, 0 - 5, 20, 0)

\* if (table[key]) { scores += table[key] }
\* no adjustment applied, whatever the key
AdjustNothing(scores, table, key) == scores

AdjustBy(scores, table, key) ==
  IF key \in DOMAIN table THEN AddVec(scores, table[key])
  ELSE IF key \in ObjectPrototypeKeys THEN NaNScores
  ELSE scores

\* Math.max(0, Math.min(100, x))
Clamp(x) == MathMax(0, MathMin(100, x))

calculateDynamicEPICScores(data) ==
  LET base == Vec(30, 30, 30, 30)
      industry == OrElse(data.industry, Str("General"))
      stage == OrElse(data.business_stage, Str("Growth"))
      afterIndustry == AdjustBy(base, industryAdjustments, industry)
      afterStage == AdjustBy(afterIndustry, stageAdjustments, stage)
      afterTeam == AddVec(afterStage, teamSizeAdjustment(data))
      afterBudget == AddVec(afterTeam, budgetAdjustment(data))
  IN [l \in LetterSet |-> Clamp(afterBudget[l])]

getPrimaryStrategy(scores) ==
  LET primary == sortedScores(scores)[1]
  IN CASE primary = "E" -> "Ecosystem-Led Growth"
       [] primary = "P" -> "Product-Led Growth"
       [] primary = "I" -> "Inbound/Outbound Sales"
       [] primary = "C" -> "Community-Led Growth"

\* the recommendations, before they are joined with '; '
getRecommendations(scores, data) ==
  LET sorted == sortedScores(scores)
      primary == sorted[1]
      secondary == sorted[2]
      forPrimary ==
        IF ~Gt(scores[primary], 50) THEN <<>>
        ELSE CASE primary = "E" ->
                    <<"Build strategic partnerships and technology integrations",
                      "Create partner enablement programs and co-marketing initiatives">>
               [] primary = "P" ->
                    <<"Implement self-service onboarding and free trial",
                      "Focus on product virality and usage-based growth">>
               [] primary = "I" ->
                    <<"Scale content marketing and SEO initiatives",
                      "Build predictable outbound sales processes">>
               [] primary = "C" ->
                    <<"Launch community platform and engagement programs",
                      "Develop user-generated content and advocacy initiatives">>
      forSecondary ==
        IF ~Gt(scores[secondary], 40) THEN <<>>
        ELSE CASE secondary = "E" -> <<"Explore marketplace and integration opportunities">>
               [] secondary = "P" -> <<"Optimize for self-service adoption">>
               [] secondary = "I" -> <<"Invest in demand generation and ABM">>
               [] secondary = "C" -> <<"Foster peer-to-peer learning and support">>
      forStage ==
        IF data.business_stage \in {Str("MVP"), Str("Pre-launch")}
        THEN <<"Focus on product-market fit validation">>
        ELSE IF data.business_stage \in {Str("Scale"), Str("Enterprise")}
        THEN <<"Build scalable go-to-market infrastructure">>
        ELSE <<>>
  IN forPrimary \o forSecondary \o forStage

(***************************************************************************)
(* part_007: ROADMAP_ENGINE                                                *)
(***************************************************************************)
PhaseKeys == <<"days_30", "days_60", "first_quarter", "second_quarter">>

roadmapTemplates ==
  ("E" :> [
     days_30 |-> <<
        "Map current partner ecosystem and identify strategic gaps",
        "Develop ideal customer profile (ICP) for target accounts",
        "Research and prioritize top 50 enterprise prospects",
        "Create account mapping and stakeholder analysis">>,
     days_60 |-> <<
        "Launch pilot ABM campaigns for top 20 accounts",
        "Establish strategic partnerships with key solution providers",
        "Implement account intelligence and relationship mapping tools",
        "Create personalized outbound sequences for target accounts">>,
     first_quarter |-> <<
        "Scale ABM approach with account-based journeys",
        "Expand partner ecosystem with joint go-to-market initiatives",
        "Launch partner enablement program with co-marketing materials",
        "Implement advanced account-based experience (ABX) across teams">>,
     second_quarter |-> <<
        "Develop enterprise channel partner program with certification",
        "Launch strategic alliance partnerships with technology integrations",
        "Measure partnership-driven pipeline and optimize ROI",
        "Establish customer advisory board and reference program">>]) @@
  ("P" :> [
     days_30 |-> <<
        "Audit user onboarding flow and identify friction points",
        "Implement product usage analytics and user tracking",
        "Create self-service trial experience design",
        "Establish product-qualified lead (PQL) scoring system">>,
     days_60 |-> <<
        "Launch optimized onboarding with progressive feature disclosure",
        "Implement automated engagement triggers and nudges",
        "A/B testing framework for conversion optimization",
        "Create in-product upgrade prompts and expansion paths">>,
     first_quarter |-> <<
        "Scale PLG motions with automated user journey optimization",
        "Launch referral program and viral growth mechanisms",
        "Implement usage-based pricing and expansion revenue tracking",
        "Optimize product-market fit based on usage data">>,
     second_quarter |-> <<
        "Launch advanced product-led sales (PLS) hybrid model",
        "Implement predictive analytics for user behavior and churn",
        "Develop enterprise PLG features with white-glove onboarding",
        "Create product-led customer success and expansion programs">>]) @@
  ("I" :> [
     days_30 |-> <<
        "Complete buyer persona research and journey mapping",
        "Audit content strategy and identify high-intent keywords",
        "Create editorial calendar aligned with sales cycles",
        "Set up marketing automation and lead scoring framework">>,
     days_60 |-> <<
        "Launch thought leadership content series targeting decision makers",
        "Implement SEO optimization for target keywords",
        "Begin hyper-personalized outbound campaigns",
        "Launch demand generation campaigns across multiple channels">>,
     first_quarter |-> <<
        "Scale content distribution and amplification strategies",
        "Optimize conversion paths with landing page testing",
        "Implement attribution modeling for content-driven pipeline",
        "Launch account-based content strategy for enterprise">>,
     second_quarter |-> <<
        "Develop industry thought leadership and speaking opportunities",
        "Launch advanced marketing automation with predictive scoring",
        "Implement omnichannel demand generation orchestration",
        "Create content-driven customer advocacy and expansion programs">>]) @@
  ("C" :> [
     days_30 |-> <<
        "Define community vision and value proposition",
        "Research community platforms and engagement strategies",
        "Create founding member outreach plan",
        "Develop community guidelines and moderation framework">>,
     days_60 |-> <<
        "Launch community with initial content and expert positioning",
        "Implement community engagement workflows",
        "Begin thought leadership content creation from community insights",
        "Establish community-driven feedback loops">>,
     first_quarter |-> <<
        "Scale community growth with member-driven advocacy",
        "Launch community-influenced product development",
        "Measure community impact on customer acquisition and retention",
        "Create community-driven customer success programs">>,
     second_quarter |-> <<
        "Develop community-led customer advisory and expansion programs",
        "Launch industry events and community-driven thought leadership",
        "Implement community influence on product roadmap and strategy",
        "Create community-powered partner and ecosystem development">>])

\* the first key of taskOwnership / metricMap that the lower-cased task includes
firstTaskKeyword(task) ==
  CASE task \in {"Create account mapping and stakeholder analysis",
                   "Implement account intelligence and relationship mapping tools",
                   "Complete buyer persona research and journey mapping"} -> "mapping"
    [] task \in {"Research and prioritize top 50 enterprise prospects",
                   "Research community platforms and engagement strategies"} -> "research"
    [] task \in {"Audit content strategy and identify high-intent keywords",
                   "Launch thought leadership content series targeting decision makers",
                   "Scale content distribution and amplification strategies",
                   "Implement attribution modeling for content-driven pipeline",
                   "Launch account-based content strategy for enterprise",
                   "Create content-driven customer advocacy and expansion programs",
                   "Launch community with initial content and expert positioning",
                   "Begin thought leadership content creation from community insights"} -> "content"
    [] task \in {"Launch pilot ABM campaigns for top 20 accounts",
                   "Begin hyper-personalized outbound campaigns",
                   "Launch demand generation campaigns across multiple channels"} -> "campaign"
    [] task \in {"Establish strategic partnerships with key solution providers",
                   "Launch strategic alliance partnerships with technology integrations",
                   "Measure partnership-driven pipeline and optimize ROI"} -> "partnership"
    [] task \in {"Implement product usage analytics and user tracking",
                   "Establish product-qualified lead (PQL) scoring system",
                   "Create in-product upgrade prompts and expansion paths",
                   "Optimize product-market fit based on usage data",
                   "Launch advanced product-led sales (PLS) hybrid model",
                   "Create product-led customer success and expansion programs",
                   "Launch community-influenced product development",
                   "Implement community influence on product roadmap and strategy"} -> "product"
    [] task \in {"Set up marketing automation and lead scoring framework",
                   "Launch advanced marketing automation with predictive scoring"} -> "automation"
    [] task \in {"Define community vision and value proposition",
                   "Develop community guidelines and moderation framework",
                   "Implement community engagement workflows",
                   "Establish community-driven feedback loops",
                   "Scale community growth with member-driven advocacy",
                   "Measure community impact on customer acquisition and retention",
                   "Create community-driven customer success programs",
                   "Develop community-led customer advisory and expansion programs",
                   "Launch industry events and community-driven thought leadership",
                   "Create community-powered partner and ecosystem development"} -> "community"
    [] task \in {"Implement predictive analytics for user behavior and churn"} -> "analytics"
    [] OTHER -> "none"

priorityMapping ==
  (<<"lead", "generation">> :> [epic |-> <<"I", "P">>, weight |-> "high"]) @@
  (<<"customer", "acquisition">> :> [epic |-> <<"E", "I">>, weight |-> "high"]) @@
  (<<"brand", "awareness">> :> [epic |-> <<"I", "C">>, weight |-> "medium"]) @@
  (<<"customer", "retention">> :> [epic |-> <<"P", "C">>, weight |-> "high"]) @@
  (<<"market", "expansion">> :> [epic |-> <<"E", "I">>, weight |-> "medium"]) @@
  (<<"product", "adoption">> :> [epic |-> <<"P">>, weight |-> "high"]) @@
  (<<"sales", "enablement">> :> [epic |-> <<"E", "I">>, weight |-> "medium"]) @@
  (<<"partnership", "development">> :> [epic |-> <<"E">>, weight |-> "medium"]) @@
  (<<"content", "marketing">> :> [epic |-> <<"I">>, weight |-> "medium"]) @@
  (<<"community", "building">> :> [epic |-> <<"C">>, weight |-> "low"]) @@
  (<<"conversion", "optimization">> :> [epic |-> <<"P", "I">>, weight |-> "high"]) @@
  (<<"competitive", "differentiation">> :> [epic |-> <<"E", "P">>, weight |-> "medium"])

WeightOf(mapping) ==
  IF mapping.weight = "high" THEN 3 ELSE IF mapping.weight = "medium" THEN 2 ELSE 1

\* mapping.epic.forEach(letter => epicScores[letter] += weight)
AddWeight(epicScores, mapping) ==
  [l \in LetterSet |->
     IF \E i \in 1..Len(mapping.epic) : mapping.epic[i] = l
     THEN epicScores[l] + WeightOf(mapping)
     ELSE epicScores[l]]

\* the forEach over the priorities, from the k-th on; an inherited key of
\* priorityMapping is a function with no epic list, and the forEach on it throws
RECURSIVE AccumulatePriorities(_, _, _)
AccumulatePriorities(epicScores, priorities, k) ==
  IF k > Len(priorities) THEN epicScores
  ELSE LET key == toLowerCase(priorities[k])
       IN IF key \in DOMAIN priorityMapping
          THEN AccumulatePriorities(AddWeight(epicScores, priorityMapping[key]),
                                    priorities, k + 1)
          ELSE IF key \in ObjectPrototypeKeys THEN TypeError
          ELSE AccumulatePriorities(epicScores, priorities, k + 1)

mapPrioritiesToEPIC(priorities) ==
  LET epicScores == AccumulatePriorities(Vec(0, 0, 0, 0), priorities, 1)
  IN IF Threw(epicScores) THEN TypeError
     ELSE LET sorted == sortedScores(epicScores)
          IN [primary |-> sorted[1], secondary |-> sorted[2], scores |-> epicScores]

budgetTiers ==
  (Str("<25k") :> "minimal") @@ (Str("25k-50k") :> "lean") @@
  (Str("50k-100k") :> "moderate") @@ (Str("100k-250k") :> "substantial") @@
  (Str("250k-500k") :> "strong") @@ (Str("500k+") :> "enterprise")

teamTiers ==
  (Str("1-2") :> "startup") @@ (Str("3-5") :> "small") @@
  (Str("5-10") :> "medium") @@ (Str("10-20") :> "large") @@
  (Str("20+") :> "enterprise")

\* table[key], "undefined" when the table has no such key
TierOf(table, key) == IF key \in DOMAIN table THEN table[key] ELSE "undefined"

budgetScore(tier) ==
  CASE tier = "minimal" -> 1 [] tier = "lean" -> 2 [] tier = "moderate" -> 3
    [] tier = "substantial" -> 4 [] tier = "strong" -> 5 [] tier = "enterprise" -> 6
    [] OTHER -> 3

teamScore(tier) ==
  CASE tier = "startup" -> 1 [] tier = "small" -> 2 [] tier = "medium" -> 3
    [] tier = "large" -> 4 [] tier = "enterprise" -> 5
    [] OTHER -> 3

calculateCapacity(budgetTier, teamTier) ==
  LET totalScore == budgetScore(budgetTier) + teamScore(teamTier)
  IN IF totalScore <= 3 THEN "constrained"
     ELSE IF totalScore <= 6 THEN "moderate"
     ELSE IF totalScore <= 9 THEN "strong"
     ELSE "high"

analyzeResourceConstraints(budget_range, team_size) ==
  LET budget == TierOf(budgetTiers, budget_range)
      team == TierOf(teamTiers, team_size)
  IN [budget |-> IF budget = "undefined" THEN "moderate" ELSE budget,
      team |-> IF team = "undefined" THEN "medium" ELSE team,
      capacity |-> calculateCapacity(budget, team)]

getEPICRoadmapTemplate(primary, secondary, industry) ==
  LET primaryTemplate == roadmapTemplates[primary]
      secondaryTemplate == roadmapTemplates[secondary]
  IN [days_30 |-> Append(primaryTemplate.days_30, secondaryTemplate.days_30[1]),
      days_60 |-> Append(primaryTemplate.days_60, secondaryTemplate.days_60[1]),
      first_quarter |->
        Append(primaryTemplate.first_quarter, secondaryTemplate.first_quarter[1]),
      second_quarter |->
        Append(primaryTemplate.second_quarter, secondaryTemplate.second_quarter[1])]

suggestOwner(task, capacity) ==
  LET keyword == firstTaskKeyword(task)
  IN IF keyword = "none" THEN "Marketing Team"
     ELSE IF capacity = "constrained" THEN "Marketing Lead"
     ELSE CASE keyword = "mapping" -> "Marketing Manager"
            [] keyword = "research" -> "Marketing Analyst"
            [] keyword = "content" -> "Content Manager"
            [] keyword = "campaign" -> "Growth Manager"
            [] keyword = "partnership" -> "Business Development"
            [] keyword = "product" -> "Product Manager"
            [] keyword = "automation" -> "Marketing Ops"
            [] keyword = "community" -> "Community Manager"
            [] keyword = "analytics" -> "Data Analyst"

suggestSuccessMetric(task) ==
  LET keyword == firstTaskKeyword(task)
  IN CASE keyword = "mapping" -> "Strategic gaps identified and documented"
       [] keyword = "research" -> "Target list created with contact details"
       [] keyword = "content" -> "Content pieces published and promoted"
       [] keyword = "campaign" -> "Campaign launched with initial results"
       [] keyword = "partnership" -> "Partner agreements signed"
       [] keyword = "product" -> "Feature released and adoption tracked"
       [] keyword = "automation" -> "Workflows active with performance metrics"
       [] keyword = "community" -> "Community launched with active members"
       [] keyword = "analytics" -> "Tracking implemented with baseline metrics"
       [] OTHER -> "Task completed with measurable outcome"

\* capacityMultipliers, in tenths
capacityMultiplier(capacity) ==
  CASE capacity = "constrained" -> 6
    [] capacity = "moderate" -> 8
    [] capacity = "strong" -> 10
    [] capacity = "high" -> 12
    [] OTHER -> 10

\* the day number of `Day ${...}`; multiplier in tenths
calculateDeadline(task, maxDays, multiplier) ==
  LET baseDeadline == RoundTenth(maxDays * 8)
      adjustedDeadline == RoundTenth(baseDeadline * multiplier)
  IN MathMin(maxDays, MathMax(7, adjustedDeadline))

PlanTasks(tasks, maxDays, capacity) ==
  [i \in 1..Len(tasks) |->
     [task |-> tasks[i],
      owner |-> suggestOwner(tasks[i], capacity),
      deadline |-> calculateDeadline(tasks[i], maxDays, capacityMultiplier(capacity)),
      success_metric |-> suggestSuccessMetric(tasks[i])]]

\* a variant that plans only three tasks per phase for a team of high capacity
adjustForCapacityDropping(roadmap, capacity) ==
  LET kept(tasks) == IF capacity = "high" THEN SubSeq(tasks, 1, 3) ELSE tasks
  IN [days_30 |-> PlanTasks(kept(roadmap.days_30), 30, capacity),
      days_60 |-> PlanTasks(kept(roadmap.days_60), 60, capacity),
      first_quarter |-> PlanTasks(kept(roadmap.first_quarter), 90, capacity),
      second_quarter |-> PlanTasks(kept(roadmap.second_quarter), 180, capacity)]

adjustForCapacity(roadmap, capacity) ==
  [days_30 |-> PlanTasks(roadmap.days_30, 30, capacity),
   days_60 |-> PlanTasks(roadmap.days_60, 60, capacity),
   first_quarter |-> PlanTasks(roadmap.first_quarter, 90, capacity),
   second_quarter |-> PlanTasks(roadmap.second_quarter, 180, capacity)]

\* a variant of fitToTimeline that keeps only the phase the timeline names
fitToTimelineOnlyLast(roadmap, timeline) ==
  IF timeline = <<"30", "days">>
  THEN [days_30 |-> roadmap.days_30, focus |-> "Foundation and Quick Wins"]
  ELSE IF timeline = <<"60", "days">>
  THEN [days_60 |-> roadmap.days_60, focus |-> "Implementation and Execution"]
  ELSE IF timeline = <<"first", "quarter">> \/ timeline = <<"90", "days">>
  THEN [first_quarter |-> roadmap.first_quarter,
        focus |-> "Scale and Systematic Growth"]
  ELSE [days_30 |-> roadmap.days_30, days_60 |-> roadmap.days_60,
        first_quarter |-> roadmap.first_quarter,
        second_quarter |-> roadmap.second_quarter,
        focus |-> "Complete Strategic Implementation"]

fitToTimeline(roadmap, timeline) ==
  IF timeline = <<"30", "days">>
  THEN [days_30 |-> roadmap.days_30, focus |-> "Foundation and Quick Wins"]
  ELSE IF timeline = <<"60", "days">>
  THEN [days_30 |-> roadmap.days_30, days_60 |-> roadmap.days_60,
        focus |-> "Implementation and Execution"]
  ELSE IF timeline = <<"first", "quarter">> \/ timeline = <<"90", "days">>
  THEN [days_30 |-> roadmap.days_30, days_60 |-> roadmap.days_60,
        first_quarter |-> roadmap.first_quarter,
        focus |-> "Scale and Systematic Growth"]
  ELSE [days_30 |-> roadmap.days_30, days_60 |-> roadmap.days_60,
        first_quarter |-> roadmap.first_quarter,
        second_quarter |-> roadmap.second_quarter,
        focus |-> "Complete Strategic Implementation"]

createTimelinedRoadmap(epicPriorities, resourceConstraints, timeline, industry) ==
  LET baseRoadmap == getEPICRoadmapTemplate(epicPriorities.primary,
                                            epicPriorities.secondary, industry)
      adjustedRoadmap == adjustForCapacity(baseRoadmap, resourceConstraints.capacity)
  IN fitToTimeline(adjustedRoadmap, timeline)

\* the roadmap field of generateImplementationRoadmap's result
generateImplementationRoadmap(inputData) ==
  LET epicPriorities == mapPrioritiesToEPIC(inputData.priorities)
      resourceConstraints ==
        analyzeResourceConstraints(inputData.budget_range, inputData.team_size)
  IN IF Threw(epicPriorities) THEN TypeError
     ELSE createTimelinedRoadmap(epicPriorities, resourceConstraints,
                                 inputData.timeline, inputData.industry)

(***************************************************************************)
(* part_004: the priority recommendations of the EPIC audit                *)
(***************************************************************************)
Areas == <<"ecosystem", "product_led", "inbound", "community">>

recommendationMap ==
  ("ecosystem" :> <<
     [action |-> "Map current partner ecosystem and identify strategic partnership gaps",
      effort |-> "medium", impact |-> "high", timeline |-> "30 days"],
     [action |-> "Develop Account-Based Marketing strategy for top 50 enterprise prospects",
      effort |-> "high", impact |-> "high", timeline |-> "60 days"],
     [action |-> "Create partner enablement program with co-marketing materials",
      effort |-> "medium", impact |-> "medium", timeline |-> "45 days"],
     [action |-> "Implement relationship intelligence tools for account mapping",
      effort |-> "low", impact |-> "medium", timeline |-> "14 days"]>>) @@
  ("product_led" :> <<
     [action |-> "Audit user onboarding flow and eliminate friction points",
      effort |-> "medium", impact |-> "high", timeline |-> "30 days"],
     [action |-> "Implement product usage analytics and engagement scoring",
      effort |-> "high", impact |-> "high", timeline |-> "45 days"],
     [action |-> "Design self-service trial experience with guided product discovery",
      effort |-> "high", impact |-> "high", timeline |-> "60 days"],
     [action |-> "A/B testing framework for conversion optimization",
      effort |-> "medium", impact |-> "medium", timeline |-> "30 days"]>>) @@
  ("inbound" :> <<
     [action |-> "Develop comprehensive buyer persona research and journey mapping",
      effort |-> "medium", impact |-> "high", timeline |-> "30 days"],
     [action |-> "Launch thought leadership content series targeting decision makers",
      effort |-> "high", impact |-> "high", timeline |-> "60 days"],
     [action |-> "Implement marketing automation workflows and lead scoring",
      effort |-> "medium", impact |-> "medium", timeline |-> "45 days"],
     [action |-> "SEO optimization for high-intent buyer keywords",
      effort |-> "medium", impact |-> "medium", timeline |-> "90 days"]>>) @@
  ("community" :> <<
     [action |-> "Define community vision and core value proposition for members",
      effort |-> "low", impact |-> "medium", timeline |-> "14 days"],
     [action |-> "Launch industry community with expert positioning and valuable content",
      effort |-> "high", impact |-> "high", timeline |-> "90 days"],
     [action |-> "Create customer advocacy program with testimonials and case studies",
      effort |-> "medium", impact |-> "medium", timeline |-> "60 days"],
     [action |-> "Develop thought leadership content calendar based on community insights",
      effort |-> "medium", impact |-> "medium", timeline |-> "45 days"]>>)

getAreaSpecificRecommendations(area, inputData) ==
  IF area \in DOMAIN recommendationMap THEN recommendationMap[area] ELSE <<>>

\* formatEPICArea(area.replace('_', ' '))
formatEPICArea(area) ==
  CASE area = "ecosystem" -> "Ecosystem & ABM"
    [] area = "product_led" -> "Product-Led Growth"
    [] area = "inbound" -> "Inbound & Outbound"
    [] area = "community" -> "Community-Led"

scoreMap(scores) ==
  ("ecosystem" :> scores.ecosystem_score) @@
  ("product_led" :> scores.product_led_score) @@
  ("inbound" :> scores.inbound_score) @@
  ("community" :> scores.community_score)

TagRecs(area, recs, priority) ==
  [i \in 1..Len(recs) |->
     [area |-> formatEPICArea(area), recommendation |-> recs[i].action,
      priority |-> priority, effort |-> recs[i].effort,
      impact |-> recs[i].impact, timeline |-> recs[i].timeline]]

\* the recommendations pushed for the k-th area of scoreMap
LowScoreRecs(inputData, scores, k) ==
  LET area == Areas[k]
      score == scoreMap(scores)[area]
      focusAreas == inputData.focus_areas
  IN IF Lt(score, 50) /\ (Len(focusAreas) = 0
                          \/ \E i \in 1..Len(focusAreas) : focusAreas[i] = area)
     THEN TagRecs(area, getAreaSpecificRecommendations(area, inputData),
                  IF Lt(score, 30) THEN "high" ELSE "medium")
     ELSE <<>>

\* Object.entries(scoreMap).sort((a, b) => b[1] - a[1])[0][0]
highestAreaOf(scores) ==
  LET m == scoreMap(scores)
  IN CHOOSE a \in DOMAIN m :
       \E k \in 1..4 :
         /\ Areas[k] = a
         /\ \A j \in 1..4 : j # k =>
              \/ Gt(m[a], m[Areas[j]])
              \/ ~Gt(m[Areas[j]], m[a]) /\ k < j

generatePriorityRecommendations(inputData, scores) ==
  LET low == LowScoreRecs(inputData, scores, 1) \o LowScoreRecs(inputData, scores, 2)
             \o LowScoreRecs(inputData, scores, 3) \o LowScoreRecs(inputData, scores, 4)
      recommendations ==
        IF Len(low) = 0
        THEN LET highestArea == highestAreaOf(scores)
             IN TagRecs(highestArea,
                        slice(getAreaSpecificRecommendations(highestArea, inputData), 3),
                        "medium")
        ELSE low
  IN slice(recommendations, 8)

(***************************************************************************)
(* class GTMAlphaConsultant: the consultation report                       *)
(***************************************************************************)
generateStrategicInsights(challenge, businessStage, epicAnalysis) ==
  LET name == epicFrameworkName(epicAnalysis.primaryFocus)
      guidance ==
        IF includes(businessStage, <<"pmf">>)
        THEN "Scale proven customer acquisition channels"
        ELSE IF includes(businessStage, <<"seed">>)
        THEN "Focus on validating product-market fit"
        ELSE IF includes(businessStage, <<"series">>)
        THEN "Optimize for scalability"
        ELSE ""
  IN IF businessStage = Absent THEN TypeError
     ELSE [strategic |-> <<name, guidance>>,
           implementation |-> epicAnalysis.primaryFocus,
           outcomes |-> "within 90 days"]

\* timestamp is what new Date() read
generateConsultationReport(input, timestamp) ==
  LET client_name == DefaultTo(input.client_name, <<"Valued", "Client">>)
      company_name == DefaultTo(input.company_name, <<"Your", "Company">>)
      company_description == DefaultTo(input.company_description, EmptyStr)
      gtm_challenge == DefaultTo(input.gtm_challenge, EmptyStr)
      business_stage == DefaultTo(input.business_stage, Str("growth"))
      industry == DefaultTo(input.industry, Str("Technology"))
      epicAnalysis == analyzeEPICScoresApify(gtm_challenge, company_description,
                                             industry, business_stage)
      insights == generateStrategicInsights(gtm_challenge, business_stage, epicAnalysis)
  IN IF Threw(epicAnalysis) THEN TypeError
     ELSE [consultation_output |->
             <<client_name, <<epicFrameworkName(epicAnalysis.primaryFocus)>>,
               epicAnalysis.scores, insights>>,
           primary_epic_focus |-> epicFrameworkName(epicAnalysis.primaryFocus),
           epic_scores |-> epicAnalysis.scores,
           strategic_insights |-> insights,
           timestamp |-> timestamp,
           client_info |-> [name |-> client_name, company |-> company_name,
                            stage |-> business_stage, industry |-> industry]]

(***************************************************************************)
(* analyze.js: the request handler                                         *)
(***************************************************************************)
\* the HTML report; generated and reportId are what new Date() and Date.now()
\* read while it is written
generateHTMLReport(inputData, analysis, epicScores, generated, reportId) ==
  [client |-> OrElse(inputData.client_name, inputData.company_name),
   company_name |-> inputData.company_name,
   consultation_id |-> reportId,
   generated |-> generated,
   primary_focus |-> analysis.primaryFocus,
   secondary_focus |-> analysis.secondaryFocus,
   epic_scores |-> epicScores,
   insights |-> analysis.insights,
   digital_insights |-> analysis.digitalInsights,
   recommendations |-> analysis.recommendations,
   roadmap |-> analysis.roadmap]

\* the response to one request; clock holds the four readings of the clock,
\* in the order they are taken: new Date() and Date.now() of the HTML report,
\* then Date.now() for the consultation id and new Date() for the timestamp
AnalyzeResponse(req, clock) ==
  IF req.method = "OPTIONS" THEN [status |-> 200]
  ELSE IF req.method # "POST"
  THEN [status |-> 405, error |-> "Method not allowed"]
  ELSE IF IsMalformed(req.body)
  THEN \* req.json() throws inside the try block
       [status |-> 500, success |-> FALSE, error |-> "Internal server error",
        runId |-> clock[1]]
  ELSE
    LET inputData == req.body
        companyName == OrElse(inputData.company_name, inputData.company)
        industry == OrElse(inputData.industry, inputData.market)
        businessStage == OrElse(OrElse(inputData.business_stage, inputData.stage),
                                Str("growth"))
        gtmChallenge == OrElse(inputData.gtm_challenge, EmptyStr)
        enhancedInputData ==
          [client_name |-> OrElse(inputData.client_name, companyName),
           company_name |-> companyName,
           gtm_challenge |-> gtmChallenge,
           business_stage |-> businessStage,
           industry |-> industry,
           website_url |-> inputData.website_url,
           linkedin_url |-> inputData.linkedin_url,
           twitter_url |-> inputData.twitter_url]
        epicScores == analyzeEPICFramework(enhancedInputData)
        digitalAnalysis ==
          IF \/ ~Falsy(enhancedInputData.website_url)
             \/ ~Falsy(enhancedInputData.linkedin_url)
             \/ ~Falsy(enhancedInputData.twitter_url)
          THEN analyzeDigitalPresence(enhancedInputData)
          ELSE NoDigital
        analysis == generateStrategicAnalysis(enhancedInputData, epicScores,
                                              digitalAnalysis)
        htmlReport == generateHTMLReport(enhancedInputData, analysis, epicScores,
                                         clock[1], clock[2])
        consultationId == clock[3]
        timestamp == clock[4]
    IN IF Falsy(companyName) \/ Falsy(industry)
       THEN [status |-> 400, error |-> "Missing required fields"]
       ELSE [status |-> 200,
             success |-> TRUE,
             runId |-> consultationId,
             data |-> [consultation_id |-> consultationId,
                       report_url |-> <<"data:text/html;base64", htmlReport>>,
                       primary_focus |-> analysis.primaryFocus,
                       epic_scores |-> epicScores,
                       consultation_output |-> analysis.insights,
                       timestamp |-> timestamp,
                       digital_insights |-> analysis.digitalInsights],
             analysis |-> [recommendations |-> analysis.recommendations,
                           market_insights |->
                             [primary_focus |-> analysis.primaryFocus,
                              secondary_focus |-> analysis.secondaryFocus,
                              epic_scores |-> epicScores],
                           implementation_roadmap |-> analysis.roadmap,
                           digital_presence_analysis |-> digitalAnalysis,
                           consultation_id |-> consultationId,
                           timestamp |-> timestamp,
                           html_report |-> htmlReport]]

(***************************************************************************)
(* mcp.js: the persistence layer.  In the stores time is counted in whole  *)
(* days; now is what Date.now() reads.                                     *)
(***************************************************************************)
PERSISTENCE_DURATION == 30
PROGRESS_CHECK_INTERVAL == 7
\* handleProgressTracking waits this many days after the latest record
ProgressMinimumDays == 14
\* addProgressRecord keeps this many records of a business
ProgressHistoryLimit == 12

\* Math.round(n / d * 100) for d > 0: round half up
RoundPercent(n, d) == (200 * n + d) \div (2 * d)

\* company_name.toLowerCase() and industry.toLowerCase() of undefined throw
BusinessKeyThrows(input) == input.company_name = Absent \/ input.industry = Absent

\* the pieces of a lowercased word after replace(/[^a-z0-9]/g, '-'): every
\* character that is no lowercase letter and no digit becomes a hyphen
SlugWord(w) ==
  CASE w = "a&b" -> <<"a", "-", "b">>
    [] w = "a+b" -> <<"a", "-", "b">>
    [] OTHER -> <<w>>

RECURSIVE CompanySlug(_)
\* the slug of a company name: its words, lowercased, and a hyphen for the
\* space between two words
CompanySlug(words) ==
  IF Len(words) = 0 THEN <<>>
  ELSE IF Len(words) = 1 THEN SlugWord(LowerWord(words[1]))
  ELSE SlugWord(LowerWord(words[1])) \o <<"-">> \o CompanySlug(Tail(words))

RECURSIVE Spaced(_)
\* the pieces of a string: its words and the spaces between them
Spaced(words) ==
  IF Len(words) <= 1 THEN words
  ELSE <<words[1], " ">> \o Spaced(Tail(words))

\* the business key as the pieces of the string
\* `${slug of company_name}-${industry.toLowerCase()}-${business_stage}`
generateBusinessKey(input) ==
  CompanySlug(input.company_name) \o <<"-">> \o Spaced(toLowerCase(input.industry))
    \o <<"-">> \o Spaced(TemplateStr(input.business_stage))

\* a mutation of getStoredConsultation: a stored record never expires
getStoredForever(businessKey) == MapGet(consultationStorage, businessKey)

getStoredConsultation(businessKey) ==
  LET stored == MapGet(consultationStorage, businessKey)
  IN IF stored # Absent /\ (now - stored.timestamp) < PERSISTENCE_DURATION
     THEN stored
     ELSE Absent

\* a mutation of addProgressRecord: no record is ever dropped
addProgressRecordUnbounded(tracking, businessKey, consultationRecord) ==
  LET progressHistory == IF MapHas(tracking, businessKey)
                         THEN tracking[businessKey] ELSE <<>>
  IN MapSet(tracking, businessKey,
            Append(progressHistory,
                   [timestamp |-> consultationRecord.timestamp,
                    epicScores |-> consultationRecord.epicScores,
                    primaryFocus |-> consultationRecord.primaryFocus,
                    consultationId |-> consultationRecord.consultationId]))

\* the progress history after one more record, the oldest dropped beyond the
\* limit
addProgressRecord(tracking, businessKey, consultationRecord) ==
  LET progressHistory == IF MapHas(tracking, businessKey)
                         THEN tracking[businessKey] ELSE <<>>
      pushed == Append(progressHistory,
                       [timestamp |-> consultationRecord.timestamp,
                        epicScores |-> consultationRecord.epicScores,
                        primaryFocus |-> consultationRecord.primaryFocus,
                        consultationId |-> consultationRecord.consultationId])
      kept == IF Len(pushed) > ProgressHistoryLimit
              THEN SubSeq(pushed, Len(pushed) - ProgressHistoryLimit + 1, Len(pushed))
              ELSE pushed
  IN MapSet(tracking, businessKey, kept)

\* the two Maps after storeConsultation, and the record it returns
storeConsultation(businessKey, consultationData, realAnalysisResult) ==
  LET consultationRecord ==
        [data |-> consultationData,
         realAnalysis |-> realAnalysisResult,
         timestamp |-> now,
         consultationId |-> realAnalysisResult.data.consultation_id,
         epicScores |-> realAnalysisResult.data.epic_scores,
         primaryFocus |-> realAnalysisResult.data.primary_focus]
  IN [consultationStorage |-> MapSet(consultationStorage, businessKey,
                                     consultationRecord),
      progressTracking |-> addProgressRecord(progressTracking, businessKey,
                                             consultationRecord),
      consultationRecord |-> consultationRecord]

getProgressHistory(businessKey) ==
  IF MapHas(progressTracking, businessKey) THEN progressTracking[businessKey]
  ELSE <<>>

SumOfScores(scores) == Plus(Plus(scores.E, scores.P), Plus(scores.I, scores.C))

calculateOverallImprovement(oldScores, newScores) ==
  LET oldTotal == SumOfScores(oldScores)
      newTotal == SumOfScores(newScores)
  IN IF Gt(oldTotal, 0) THEN RoundPercent(newTotal - oldTotal, oldTotal) ELSE 0

calculateProgressMetrics(businessKey) ==
  LET history == getProgressHistory(businessKey)
      latest == history[Len(history)]
      previous == history[Len(history) - 1]
  IN IF Len(history) < 2 THEN Absent
     ELSE [timespan |-> latest.timestamp - previous.timestamp,
           epicChanges |-> [l \in LetterSet |->
                              latest.epicScores[l] - previous.epicScores[l]],
           focusChange |-> latest.primaryFocus # previous.primaryFocus,
           overallImprovement |->
             calculateOverallImprovement(previous.epicScores, latest.epicScores)]

generateBusinessImpactAssessment(improvement, timespan) ==
  IF improvement > 15 THEN "Excellent progress"
  ELSE IF improvement > 5 THEN "Good progress direction"
  ELSE IF improvement < 0 - 10 THEN "Significant concern"
  ELSE "Stable performance"

generateProgressReport(businessKey, currentData) ==
  LET progressMetrics == calculateProgressMetrics(businessKey)
  IN IF progressMetrics = Absent
     THEN [first_time |-> TRUE]
     ELSE [first_time |-> FALSE,
           timespan |-> progressMetrics.timespan,
           overall |-> progressMetrics.overallImprovement,
           changes |-> progressMetrics.epicChanges,
           pivot |-> IF progressMetrics.focusChange
                     THEN currentData.primary_focus ELSE "",
           impact |-> generateBusinessImpactAssessment(
                        progressMetrics.overallImprovement,
                        progressMetrics.timespan)]

\* a request body none of whose fields analyze.js reads is given
EmptyBody ==
  [company_name |-> Absent, company |-> Absent, client_name |-> Absent,
   industry |-> Absent, market |-> Absent, business_stage |-> Absent,
   stage |-> Absent, gtm_challenge |-> Absent, website_url |-> Absent,
   linkedin_url |-> Absent, twitter_url |-> Absent]

\* what require('./analyze') holds: analyze.js exports default and config
analyzeExports == {"default", "config"}
\* const analyzeHandler = require('./analyze').handler
analyzeHandler == IF "handler" \in analyzeExports THEN "function" ELSE "undefined"

\* analyzeHandler(analyzeEvent, {}): calling undefined throws a TypeError; the
\* function of analyze.js reads req.method, which the event does not have
CallAnalyzeHandler(analyzeEvent) ==
  IF analyzeHandler # "function"
  THEN [exception |-> "analyzeHandler is not a function"]
  ELSE AnalyzeResponse([method |-> "undefined", body |-> analyzeEvent.body],
                       <<now, now, now, now>>)

\* JSON.parse(result.body): the text of a Lambda-style result; a Response
\* carries no such text
ParseResultBody(result) ==
  IF "body" \in DOMAIN result THEN result.body
  ELSE [exception |-> "SyntaxError"]

\* what callRealBackendAnalyzer makes of the result of the call: the
\* analysis, or the exception it throws
BackendResult(result, entered) ==
  LET analyzeResult == ParseResultBody(result)
  IN IF Threw(result)
     THEN [exception |-> <<"Real backend integration failed", result.exception>>,
           invoked |-> entered, failed |-> {"analyze"}]
     ELSE IF Threw(analyzeResult)
     THEN [exception |-> <<"Real backend integration failed",
                           analyzeResult.exception>>,
           invoked |-> entered, failed |-> {"analyze"}]
     ELSE IF ~analyzeResult.success
     THEN [exception |-> <<"Real backend integration failed",
                           "Backend analysis failed">>,
           invoked |-> entered, failed |-> {"analyze"}]
     ELSE [analysis |-> analyzeResult, invoked |-> entered, failed |-> {}]

\* object.field: undefined when the object has no such field
Given(object, field) ==
  IF field \in DOMAIN object THEN object[field] ELSE Absent

mapBusinessStageToSize(stage) ==
  CASE stage = Str("bootstrapped-idea") -> Str("Startup")
    [] stage \in {Str("bootstrapped-pmf"), Str("venture-seed")} -> Str("Small")
    [] stage \in {Str("venture-series-a"), Str("venture-series-b")} -> Str("Mid-market")
    [] stage \in {Str("venture-series-c"), Str("enterprise")} -> Str("Enterprise")
    [] OTHER -> Str("Mid-market")

\* the body of the event callRealBackendAnalyzer hands to the handler of
\* analyze.js: the fields analyze.js reads that the body leaves out are
\* undefined, and the stage and the challenge travel as size and challenges
analyzeEventBody(inputData) ==
  [EmptyBody EXCEPT !.company = inputData.company_name,
                    !.industry = inputData.industry,
                    !.market = OrElse(Given(inputData, "market"), Str("Global"))]
  @@ [size |-> mapBusinessStageToSize(Given(inputData, "business_stage")),
      challenges |-> OrElse(Given(inputData, "gtm_challenge"),
                            OrElse(Given(inputData, "challenges"), EmptyStr)),
      companyDescription |-> OrElse(Given(inputData, "company_description"),
                                    EmptyStr)]

\* the stage and the challenge text analyze.js takes from a request body and
\* runs analyzeEPICFramework with
scorerContext(inputData) ==
  [business_stage |-> OrElse(OrElse(Given(inputData, "business_stage"),
                                    Given(inputData, "stage")),
                             Str("growth")),
   gtm_challenge |-> OrElse(OrElse(Given(inputData, "gtm_challenge"),
                                   Given(inputData, "current_challenges")),
                            EmptyStr)]

\* invoked tells whether the handler of analyze.js was entered
callRealBackendAnalyzer(inputData) ==
  BackendResult(
    CallAnalyzeHandler([httpMethod |-> "POST", body |-> analyzeEventBody(inputData)]),
    IF analyzeHandler = "function" THEN {"analyze"} ELSE {})

TextContent(text) == [content |-> <<[type |-> "text", text |-> text]>>]

\* the outcome of a tool of mcp.js: what it returns or throws, the two Maps
\* as it leaves them and the collaborators it called
Outcome(result, storage, tracking, called, broken) ==
  [result |-> result, consultationStorage |-> storage,
   progressTracking |-> tracking, invoked |-> called, failed |-> broken]

\* handleRealConsultationWithPersistence once the business key is known;
\* real is what callRealBackendAnalyzer(args) returns or throws
ConsultationWith(args, businessKey, real) ==
    LET existingConsultation == getStoredConsultation(businessKey)
        realData == real.analysis.data
        consultationOutput ==
          [title |-> "GTM Alpha Real Consultation",
           client_name |-> TemplateStr(args.client_name),
           company_name |-> TemplateStr(args.company_name),
           industry |-> TemplateStr(args.industry),
           business_stage |-> TemplateStr(args.business_stage),
           epic_scores |-> realData.epic_scores,
           primary_focus |-> realData.primary_focus,
           analysis |-> realData.consultation_output,
           roadmap |-> real.analysis.analysis.implementation_roadmap,
           consultation_id |-> realData.consultation_id,
           generated |-> now,
           review_due |-> now + PERSISTENCE_DURATION]
        consultationData ==
          [consultation_output |-> consultationOutput,
           epic_scores |-> realData.epic_scores,
           primary_focus |-> realData.primary_focus,
           consultation_id |-> realData.consultation_id,
           client_info |-> [name |-> args.client_name,
                            company |-> args.company_name,
                            industry |-> args.industry,
                            stage |-> args.business_stage]]
        stored == storeConsultation(businessKey, consultationData, real.analysis)
    IN IF existingConsultation # Absent
       THEN Outcome(
              TextContent(
                [title |-> "CONSISTENT BUSINESS ANALYSIS",
                 client_name |-> TemplateStr(args.client_name),
                 daysOld |-> now - existingConsultation.timestamp,
                 consultation_output |->
                   existingConsultation.data.consultation_output,
                 progressReport |->
                   generateProgressReport(businessKey, existingConsultation.data),
                 consultation_id |-> existingConsultation.consultationId,
                 next_review |-> existingConsultation.timestamp
                                   + PROGRESS_CHECK_INTERVAL]),
              consultationStorage, progressTracking, {}, {})
       ELSE IF Threw(real)
       THEN Outcome(
              TextContent([title |-> "GTM Alpha Consultation Error",
                           error |-> real.exception,
                           timestamp |-> now,
                           company_name |-> TemplateStr(args.company_name)]),
              consultationStorage, progressTracking, real.invoked,
                    real.failed)
       ELSE Outcome(TextContent(consultationOutput), stored.consultationStorage,
                    stored.progressTracking, real.invoked,
                    real.failed)

handleRealConsultationWithPersistence(args) ==
  IF BusinessKeyThrows(args)
  THEN Outcome([exception |-> "TypeError"], consultationStorage,
               progressTracking, {}, {})
  ELSE ConsultationWith(args, generateBusinessKey(args),
                        callRealBackendAnalyzer(args))

\* handleProgressTracking once the business key is known; newAnalysis is
\* what callRealBackendAnalyzer(progressInput) returns or throws
ProgressWith(args, businessKey, newAnalysis) ==
    LET progressHistory == getProgressHistory(businessKey)
        latestConsultation == progressHistory[Len(progressHistory)]
        daysSinceLatest == now - latestConsultation.timestamp
        newData == newAnalysis.analysis.data
        improvement == calculateOverallImprovement(latestConsultation.epicScores,
                                                   newData.epic_scores)
    IN IF Len(progressHistory) = 0
       THEN Outcome(
              TextContent([title |-> "No Progress Baseline Found",
                           company_name |-> TemplateStr(args.company_name)]),
              consultationStorage, progressTracking, {}, {})
       ELSE IF daysSinceLatest < ProgressMinimumDays
       THEN Outcome(
              TextContent([title |-> "Progress Check - Too Early",
                           company_name |-> TemplateStr(args.company_name),
                           daysSinceLatest |-> daysSinceLatest,
                           epicScores |-> latestConsultation.epicScores,
                           primaryFocus |-> latestConsultation.primaryFocus]),
              consultationStorage, progressTracking, {}, {})
       ELSE IF Threw(newAnalysis)
       THEN Outcome(
              TextContent([title |-> "Progress Tracking Error",
                           error |-> newAnalysis.exception,
                           total |-> Len(progressHistory),
                           epicScores |-> latestConsultation.epicScores]),
              consultationStorage, progressTracking, newAnalysis.invoked, newAnalysis.failed)
       ELSE Outcome(
              TextContent([title |-> "GTM Progress Tracking",
                           company_name |-> TemplateStr(args.company_name),
                           timespan |-> daysSinceLatest,
                           oldScores |-> latestConsultation.epicScores,
                           newScores |-> newData.epic_scores,
                           improvement |-> improvement]),
              consultationStorage,
              addProgressRecord(progressTracking, businessKey,
                                [timestamp |-> now,
                                 epicScores |-> newData.epic_scores,
                                 primaryFocus |-> newData.primary_focus,
                                 consultationId |-> newData.consultation_id]),
              newAnalysis.invoked, newAnalysis.failed)

handleProgressTracking(args) ==
  IF BusinessKeyThrows(args)
  THEN Outcome([exception |-> "TypeError"], consultationStorage,
               progressTracking, {}, {})
  ELSE ProgressWith(args, generateBusinessKey(args),
                    callRealBackendAnalyzer([company_name |-> args.company_name,
                                             industry |-> args.industry,
                                             business_stage |-> args.business_stage]))

\* the routing of mcp.js; of its four tools the two that read and write the
\* progress history are followed here
handleToolCallMcp(toolName, args) ==
  CASE toolName = "gtm_alpha_real_consultation" ->
         handleRealConsultationWithPersistence(args)
    [] toolName = "epic_progress_tracker" -> handleProgressTracking(args)
    [] OTHER -> Outcome([exception |-> "Unknown tool"], consultationStorage,
                        progressTracking, {}, {})

JsonRpcInternalError == 0 - 32603

\* handleMCPProtocol for tools/call: the HTTP answer, and what is left behind
ProtocolAnswer(request, outcome) ==
     [outcome EXCEPT !.result =
        IF Threw(outcome.result)
        THEN [statusCode |-> 500,
              body |-> [id |-> request.id,
                        error |-> [code |-> JsonRpcInternalError,
                                   message |-> "Internal error"]]]
        ELSE [statusCode |-> 200,
              body |-> [id |-> request.id, result |-> outcome.result]]]

handleMCPProtocol(request) ==
  ProtocolAnswer(request,
                 handleToolCallMcp(request.params.name, request.params.arguments))

\* BusinessCriticalGTMHandler.processUniversalConsultation; of its four
\* actions the two that read and write the progress history are followed
processUniversalConsultation(input) ==
  CASE input.action = Str("consultation") ->
         handleRealConsultationWithPersistence(input)
    [] input.action = Str("progress_check") -> handleProgressTracking(input)
    [] OTHER -> Outcome([exception |-> "Unknown action"], consultationStorage,
                        progressTracking, {}, {})

\* the answer of exports.handler to a direct or a legacy request: what the
\* handler throws is caught and answered with 500
DirectAnswer(outcome) ==
  [outcome EXCEPT !.result =
     IF Threw(outcome.result)
     THEN [statusCode |-> 500, body |-> [error |-> "Internal server error"]]
     ELSE [statusCode |-> 200,
           body |-> [success |-> TRUE, data |-> outcome.result]]]

\* an answer that leaves the Maps as they are and enters no collaborator
Answered(response) ==
  Outcome(response, consultationStorage, progressTracking, {}, {})

\* exports.handler of mcp.js
exportsHandler(event) ==
  IF event.httpMethod = "OPTIONS" THEN Answered([statusCode |-> 200])
  ELSE IF event.httpMethod = "GET"
  THEN Answered([statusCode |-> 200, body |-> [info |-> "integration"]])
  ELSE IF event.httpMethod = "POST"
  THEN IF IsMalformed(event.body)
       THEN Answered([statusCode |-> 500,
                      body |-> [error |-> "Internal server error"]])
       ELSE LET request == event.body
            IN IF request.jsonrpc = Str("2.0") THEN handleMCPProtocol(request)
               ELSE IF ~Falsy(request.action)
               THEN DirectAnswer(processUniversalConsultation(request))
               ELSE IF ~Falsy(request.client_name) /\ ~Falsy(request.company_name)
               THEN DirectAnswer(handleRealConsultationWithPersistence(request))
               ELSE Answered([statusCode |-> 400,
                              body |-> [error |-> "Invalid request format"]])
  ELSE Answered([statusCode |-> 405, body |-> [error |-> "Method not allowed"]])

(***************************************************************************)
(* epic-scores.js, submit-consultation.js and epic-audit.js: the endpoints *)
(* that write Netlify blobs.  A blob is kept under its store and its key.  *)
(***************************************************************************)
\* (data.company_name || 'UNK').substring(0, 3).toUpperCase()
IdPrefix(company_name) ==
  CASE Falsy(company_name) -> "UNK"
    [] toLowerCase(company_name) = Str("acme") -> "ACM"
    [] toLowerCase(company_name) = Str("acmos") -> "ACM"
    [] toLowerCase(company_name) = Str("ana") -> "ANA"
    [] OTHER -> "UNK"

\* what a handler answers, the blobs as it leaves them, the collaborators it
\* entered and those that failed
Served(response, store, called, broken) ==
  [response |-> response, blobs |-> store, invoked |-> called, failed |-> broken]

\* the handler of epic-scores.js; storeUp tells whether the blob store answers
epicScoresHandler(req, storeUp) ==
  LET data == req.body
      epicScores == calculateDynamicEPICScores(data)
      consultationId == <<"GTM", IdPrefix(data.company_name), now>>
      consultationData ==
        [consultation_id |-> consultationId,
         created_at |-> now,
         company_name |-> OrElse(data.company_name, Str("Unknown")),
         industry |-> OrElse(data.industry, Str("General")),
         business_stage |-> OrElse(data.business_stage, Str("Growth")),
         team_size |-> OrElse(data.team_size, Str("10")),
         monthly_budget |-> OrElse(data.monthly_budget, Str("5000")),
         epic_scores |-> epicScores,
         primary_strategy |-> getPrimaryStrategy(epicScores),
         recommendations |-> getRecommendations(epicScores, data)]
      storeFailed == Served([status |-> 500, success |-> FALSE], blobs,
                            {"blobs"}, {"blobs"})
  IN IF req.method = "OPTIONS" THEN Served([status |-> 204], blobs, {}, {})
     ELSE IF req.method = "GET"
     THEN IF Falsy(req.consultation_id)
          THEN Served([status |-> 200, message |-> "EPIC Scores API is working",
                       timestamp |-> now], blobs, {}, {})
          ELSE IF ~storeUp THEN storeFailed
          ELSE IF MapHas(blobs, <<"gtm-consultations", req.consultation_id>>)
          THEN Served([status |-> 200,
                       consultation |->
                         blobs[<<"gtm-consultations", req.consultation_id>>]],
                      blobs, {"blobs"}, {})
          ELSE Served([status |-> 404, error |-> "Consultation not found"],
                      blobs, {"blobs"}, {})
     ELSE IF req.method # "POST"
     THEN Served([status |-> 405, error |-> "Method not allowed"], blobs, {}, {})
     ELSE IF IsMalformed(data)
     THEN Served([status |-> 500, success |-> FALSE], blobs, {}, {})
     ELSE IF ~storeUp THEN storeFailed
     ELSE Served([status |-> 200, success |-> TRUE,
                  consultation_id |-> consultationId,
                  epic_scores |-> epicScores,
                  primary_strategy |-> consultationData.primary_strategy,
                  recommendations |-> consultationData.recommendations],
                 MapSet(blobs, <<"gtm-consultations", consultationId>>,
                        consultationData),
                 {"blobs"}, {})

\* the handler of submit-consultation.js; fetchUp tells whether the request
\* to /api/epic-scores gets through
submitConsultation(req, fetchUp, storeUp) ==
  LET formData == req.body
      epic == epicScoresHandler([method |-> "POST", consultation_id |-> Absent,
                                 body |-> formData], storeUp)
      epicData == epic.response
      consultationId == IF "consultation_id" \in DOMAIN epicData
                        THEN epicData.consultation_id
                        ELSE <<"CONSULT", now>>
      badRequest == [status |-> 400, success |-> FALSE]
  IN IF req.method = "OPTIONS" THEN Served([status |-> 204], blobs, {}, {})
     ELSE IF IsMalformed(formData)
     THEN \* req.json() throws; the method is not looked at
          Served(badRequest, blobs, {}, {})
     ELSE IF ~fetchUp
     THEN Served(badRequest, blobs, {"fetch"}, {"fetch"})
     ELSE IF ~storeUp
     THEN Served(badRequest, epic.blobs, {"fetch", "blobs"}, {"blobs"})
     ELSE Served([status |-> 200, html |-> "GTM Analysis Complete",
                  consultation_id |-> consultationId],
                 MapSet(epic.blobs, <<"consultations", consultationId>>,
                        [formData |-> formData, epicData |-> epicData,
                         submitted_at |-> now,
                         form_source |-> "netlify_direct"]),
                 {"fetch", "blobs"}, {})

\* EPIC_AUDIT_ENGINE.storePreviousAudit of epic-audit.js: the failure of the
\* store is caught and turned into the return value false
storePreviousAudit(consultationId, auditData, storeUp) ==
  IF storeUp
  THEN Served(TRUE, MapSet(blobs, <<"epic-audits", consultationId>>,
                           [auditData |-> auditData, timestamp |-> now]),
              {"blobs"}, {})
  ELSE Served(FALSE, blobs, {"blobs"}, {"blobs"})

\* epic-audit.js.  A storage key and a list prefix are sequences of pieces
\* that no comparison splits: the literal "EPIC-AUDIT-", the words of the
\* company id, the hyphens between them and the timestamp.
RECURSIVE Hyphenate(_)
\* company.toLowerCase().replace(/\s+/g, '-')
Hyphenate(words) ==
  IF Len(words) <= 1 THEN words
  ELSE <<words[1], "-">> \o Hyphenate(Tail(words))

\* inputData.company_id || inputData.company.toLowerCase().replace(/\s+/g, '-')
AuditCompanyId(inputData) ==
  OrElse(inputData.company_id, Hyphenate(toLowerCase(inputData.company)))

\* `EPIC-AUDIT-${companyId}-${Date.now()}`
AuditConsultationId(companyId) == <<"EPIC-AUDIT-">> \o companyId \o <<"-", now>>

KeyHasPrefix(key, prefix) ==
  Len(prefix) <= Len(key) /\ SubSeq(key, 1, Len(prefix)) = prefix

\* EPIC_AUDIT_ENGINE.getPreviousAudits: the audits whose key starts with the
\* company id; a failure of the store is caught and gives no audits
getPreviousAudits(companyId, storeUp) ==
  IF storeUp
  THEN {blobs[k] : k \in {j \in DOMAIN blobs : /\ j[1] = "epic-audits"
                                                /\ KeyHasPrefix(j[2], companyId)}}
  ELSE {}

\* EPIC_AUDIT_ENGINE.calculateProgress, as far as is_first_audit
calculateProgress(previousAudits) == [is_first_audit |-> previousAudits = {}]

\* the handler of epic-audit.js; listUp and setUp tell whether the blob store
\* answers the list and the set.  The scores of the audit are not followed.
epicAuditHandler(req, listUp, setUp) ==
  LET inputData == req.body
      companyId == AuditCompanyId(inputData)
      consultationId == AuditConsultationId(companyId)
      previousAudits == getPreviousAudits(companyId, listUp)
      stored == storePreviousAudit(consultationId,
                                   [company_id |-> companyId,
                                    input_data |-> inputData], setUp)
  IN IF req.method = "OPTIONS" THEN Served([status |-> 200], blobs, {}, {})
     ELSE IF req.method # "POST"
     THEN Served([status |-> 405, body |-> [error |-> "Method not allowed"]],
                 blobs, {}, {})
     ELSE IF IsMalformed(inputData)
     THEN Served([status |-> 500, body |-> [error |-> "Internal server error"]],
                 blobs, {}, {})
     ELSE IF Falsy(inputData.company)
     THEN Served([status |-> 400,
                  body |-> [error |-> "Missing required field: company is required"]],
                 blobs, {}, {})
     ELSE Served([status |-> 200,
                  body |-> [status |-> "success",
                            progress_analysis |-> calculateProgress(previousAudits),
                            consultation_id |-> consultationId,
                            company_id |-> companyId,
                            timestamp |-> now,
                            persistence |->
                              [stored |-> TRUE,
                               historical_audits_available |->
                                 Cardinality(previousAudits)]]],
                 stored.blobs, {"blobs"},
                 (IF listUp THEN {} ELSE {"list"}) \cup stored.failed)

(***************************************************************************)
(* create-payment-beta.js and payment-success.js.  Prices are whole        *)
(* dollars; the price a markup is applied to is counted in cents and a     *)
(* PayPal fee in tenths of a cent.                                         *)
(***************************************************************************)
basePricing ==
  [premium |-> [base |-> 29, type |-> "one-time"],
   strategic |-> [base |-> 300, type |-> "one-time"],
   fractional |-> [base |-> 4500, type |-> "recurring"],
   enterprise |-> [base |-> 1500, type |-> "recurring"]]

CeilDiv(n, d) == (n + d - 1) \div d

\* Math.ceil(basePrice * 1.025), for a basePrice of so many cents; for the
\* prices of basePricing the doubles of the code round up to the same dollar
calculatePriceWithFees(cents) == CeilDiv(cents * 41, 4000)

\* monthly, 3 months at 8% off, 12 months at 12% off
calculateDiscounts(basePrice) ==
  [monthly |-> calculatePriceWithFees(basePrice * 100),
   quarterly |-> calculatePriceWithFees(basePrice * 276),
   annual |-> calculatePriceWithFees(basePrice * 1056)]

\* the handler of create-payment-beta.js for a POST; betaActive tells whether
\* the beta period runs, paypalUp whether PayPal creates the order
createPayment(body, betaActive, paypalUp) ==
  LET tier == DefaultTo(body.tier, Str("premium"))
      payment_frequency == DefaultTo(body.payment_frequency, Str("one-time"))
      selectedService ==
        IF Len(tier) = 1 /\ tier[1] \in DOMAIN basePricing
        THEN basePricing[tier[1]] ELSE basePricing.premium
      prices == calculateDiscounts(selectedService.base)
      finalAmount ==
        IF selectedService.type = "one-time"
        THEN calculatePriceWithFees(selectedService.base * 100)
        ELSE CASE payment_frequency = Str("quarterly") -> prices.quarterly
               [] payment_frequency = Str("annual") -> prices.annual
               [] OTHER -> prices.monthly
  IN IF IsMalformed(body)
     THEN [statusCode |-> 500,
           body |-> [success |-> FALSE, error |-> "Payment processing failed"]]
     ELSE IF betaActive /\ tier = Str("premium")
     THEN IF analyzeHandler = "function"
          THEN [statusCode |-> 200,
                body |-> [success |-> TRUE, beta_offer |-> TRUE, amount |-> 0,
                          tier |-> tier]]
          ELSE [statusCode |-> 500,
                body |-> [success |-> FALSE,
                          error |-> "Consultation generation failed"]]
     ELSE IF ~paypalUp
     THEN [statusCode |-> 500,
           body |-> [success |-> FALSE, error |-> "Payment processing failed"]]
     ELSE [statusCode |-> 200,
           body |-> [success |-> TRUE, amount |-> finalAmount, tier |-> tier,
                     payment_frequency |-> payment_frequency,
                     beta_active |-> betaActive,
                     fee_structure |-> [base_price |-> selectedService.base,
                                        paypal_fee_included |-> TRUE,
                                        final_amount |-> finalAmount]],
           order |-> [value |-> finalAmount,
                      custom_id |-> [tier |-> tier,
                                     payment_frequency |-> payment_frequency,
                                     beta_period |-> betaActive,
                                     base_price |-> selectedService.base,
                                     final_amount |-> finalAmount]]]

\* the handler of payment-success.js for a POST, given what PayPal answers
\* to the capture of the order; paypal_fee is the fee before toFixed(2)
paymentSuccess(capture) ==
  LET customData == capture.custom_id
      basePrice == customData.base_price
      amountPaid == capture.value
      paypalFee == amountPaid * 29 + 300
      yourNetRevenue == basePrice
  IN IF capture.status = "COMPLETED"
     THEN [status |-> 200,
           body |-> [success |-> TRUE, payment_status |-> "completed",
                     payment_details |->
                       [amount_paid |-> amountPaid, tier |-> customData.tier,
                        payment_frequency |-> customData.payment_frequency],
                     revenue_breakdown |->
                       [gross_received |-> amountPaid,
                        paypal_fee |-> paypalFee,
                        your_net_revenue |-> yourNetRevenue,
                        markup_covered_fees |-> TRUE]]]
     ELSE [status |-> 400,
           body |-> [success |-> FALSE, error |-> "Payment not completed"]]

(***************************************************************************)
(* Inputs                                                                  *)
(***************************************************************************)
AnalyzeVocabulary == {"product-led", "growth", "Enterprise", "sales", "community"}
ScorerVocabulary == {"We", "product-led", "onboarding", "Enterprise"}

RECURSIVE WordSeqs(_, _)
WordSeqs(vocabulary, n) ==
  IF n = 0 THEN {<<>>}
  ELSE LET shorter == WordSeqs(vocabulary, n - 1)
       IN shorter \cup {Append(s, w) : s \in {t \in shorter : Len(t) = n - 1},
                                       w \in vocabulary}

\* the texts of at most n words, the empty string, and no text at all
Texts(vocabulary, n) == (WordSeqs(vocabulary, n) \ {<<>>}) \cup {EmptyStr, Absent}

AnalyzeStages == {Absent, Str("enterprise"), Str("constructor")}
AnalyzeIndustries == {Absent, Str("Finance"), Str("community"), Str("constructor")}

ScorerStages == {Absent, Str("seed"), Str("venture-series-a")}
ScorerIndustries == {EmptyStr, Str("SaaS")}
ScorerDescriptions == {Absent, Str("community")}
ScorerOps == {"analyzeEPIC", "analyzeEPICScoresStdio", "analyzeEPICScores",
              "analyzeEPICScoresApify"}

\* score vectors around the thresholds of the recommendation generators
AnalysisScoreValues == {0, 69, 70, 100}
AnalysisScores ==
  {Vec(e, p, i, c) : e \in AnalysisScoreValues, p \in AnalysisScoreValues,
                     i \in AnalysisScoreValues, c \in AnalysisScoreValues}
  \cup {NaNScores}
Url == Str("https://acme.example")
UrlChoices == {[website_url |-> w, linkedin_url |-> l, twitter_url |-> Absent] :
                 w \in {Absent, Url}, l \in {Absent, Url}}

AuditScoreValues == {29, 30, 49, 50, 80}
AuditScores ==
  {[ecosystem_score |-> e, product_led_score |-> p, inbound_score |-> i,
    community_score |-> c] :
     e \in AuditScoreValues, p \in AuditScoreValues,
     i \in AuditScoreValues, c \in AuditScoreValues}
FocusAreaChoices == {<<>>, <<"ecosystem">>, <<"product-led">>,
                     <<"community", "inbound">>}

DynamicIndustries == {Absent, Str("SaaS"), Str("Enterprise"), Str("Consumer"),
                      Str("Aerospace"), Str("constructor")}
DynamicStages == {Absent, Str("Pre-launch"), <<"Early", "Traction">>,
                  Str("Enterprise"), Str("venture-seed")}
TeamSizes == {Absent, Str("2"), Str("20"), Str("100"), Str("500"), Str("1000"),
              Str("abc")}
Budgets == {Absent, Str("500"), Str("1000"), Str("$5,000"), Str("20000"),
            Str("100000"), Str("abc")}

PriorityNames == {<<"Lead", "Generation">>, <<"product", "adoption">>,
                  <<"Community", "Building">>, <<"unknown">>, <<"constructor">>}
RECURSIVE PriorityLists(_)
PriorityLists(n) ==
  IF n = 0 THEN {<<>>}
  ELSE LET shorter == PriorityLists(n - 1)
       IN shorter \cup {Append(s, p) : s \in {t \in shorter : Len(t) = n - 1},
                                       p \in PriorityNames}
BudgetRanges == {Absent, Str("<25k"), Str("500k+")}
TeamRanges == {Absent, Str("1-2"), Str("20+")}
Timelines == {Absent, <<"30", "days">>, <<"60", "days">>, <<"first", "quarter">>,
              <<"90", "days">>, <<"6", "months">>}

ReportInputs ==
  {[client_name |-> n, company_name |-> Absent, company_description |-> Absent,
    gtm_challenge |-> ch, business_stage |-> st, industry |-> ind] :
     n \in {Absent, Str("Ana")},
     ch \in {Absent, <<"product-led", "onboarding">>, Str("community")},
     st \in {Absent, Str("seed"), Str("venture-series-a"), Str("bootstrapped-pmf")},
     ind \in {Absent, Str("B2B")}}

AnalyzeBodies ==
  {[company_name |-> names[1], company |-> names[2], client_name |-> Absent,
    industry |-> ind, market |-> Absent,
    business_stage |-> st, stage |-> Absent,
    gtm_challenge |-> ch,
    website_url |-> u, linkedin_url |-> u, twitter_url |-> Absent] :
     names \in {<<Absent, Absent>>, <<Str("Acme"), Absent>>, <<Absent, Str("Acme")>>},
     ind \in {Absent, Str("SaaS"), Str("Retail"), Str("constructor")},
     st \in {Absent, Str("venture-seed"), Str("constructor")},
     ch \in {Absent, <<"Enterprise", "sales">>},
     u \in {Absent, Url}}
AnalyzeRequests ==
  {[method |-> "POST", body |-> b] : b \in AnalyzeBodies}
  \cup {[method |-> m, body |-> EmptyBody] : m \in {"GET", "OPTIONS"}}
  \cup {[method |-> m, body |-> Malformed] : m \in {"POST", "DELETE"}}

\* tools/call parameters: a tool name and its arguments
ConsultationArguments ==
  {[NoArguments EXCEPT !.gtm_challenge = ch, !.company_description = d,
                       !.industry = ind, !.business_stage = st] :
     ch \in Texts(ScorerVocabulary, MaxWords), d \in {Absent, Str("B2B")},
     ind \in {Absent, Str("SaaS")}, st \in ScorerStages}
AuditArguments ==
  {[NoArguments EXCEPT !.challenge = ch, !.industry = ind, !.business_stage = st] :
     ch \in Texts(ScorerVocabulary, MaxWords), ind \in {Absent, Str("SaaS")},
     st \in ScorerStages}
RoadmapArguments ==
  {[NoArguments EXCEPT !.primary_focus = f, !.timeframe = tf] :
     f \in {Absent, Str("E"), Str("P"), Str("I"), Str("C"), Str("X")},
     tf \in {Absent, Str("30-day")}}
ToolParams ==
  {[name |-> "gtm_consultation", arguments |-> a] : a \in ConsultationArguments}
  \cup {[name |-> "epic_audit", arguments |-> a] : a \in AuditArguments}
  \cup {[name |-> "generate_roadmap", arguments |-> a] : a \in RoadmapArguments}
  \cup {[name |-> "delete_everything", arguments |-> NoArguments]}

\* the ids JSON-RPC requests carry
RequestIds == {1, 2}

\* the requests sent to the mcp-sse endpoint
SseRequests ==
  {[method |-> "POST", body |-> [id |-> 1, method |-> "tools/call", params |-> ps]] :
     ps \in ToolParams}
  \cup {[method |-> "POST",
         body |-> [id |-> i, method |-> m, params |-> [name |-> "", arguments |-> NoArguments]]] :
          i \in RequestIds, m \in {"initialize", "tools/list", "resources/list"}}
  \cup {[method |-> "POST",
         body |-> [id |-> 2, method |-> "tools/call",
                   params |-> [name |-> n, arguments |-> NoArguments]]] :
          n \in {"generate_roadmap", "delete_everything"}}
  \cup {[method |-> m, body |-> Malformed] : m \in {"POST", "GET", "OPTIONS", "DELETE"}}

PaymentBodies ==
  {[tier |-> t, payment_frequency |-> f,
    consultation_data |-> [company_name |-> Str("Acme")]] :
     t \in {Absent, Str("premium"), Str("strategic"), Str("fractional"),
            Str("enterprise"), Str("gold")},
     f \in {Absent, Str("monthly"), Str("quarterly"), Str("annual")}}
  \cup {Malformed}
CaptureStatuses == {"COMPLETED", "PENDING"}

ToolOps == {"mcpSseHandler", "CallTool"}

\* the operations that read the clock
HandlerOps == {"analyzeHandler", "generateConsultationReport"}

\* every call the model makes: the operation and its arguments
Calls ==
  {[op |-> "analyzeEPICFramework",
    args |-> [business_stage |-> st, industry |-> ind, gtm_challenge |-> ch]] :
     st \in AnalyzeStages, ind \in AnalyzeIndustries,
     ch \in Texts(AnalyzeVocabulary, MaxWords)}
  \cup
  {[op |-> op,
    args |-> [gtm_challenge |-> ch, company_description |-> EmptyStr,
              industry |-> ind, business_stage |-> st]] :
     op \in ScorerOps, ch \in Texts(ScorerVocabulary, MaxWords),
     ind \in ScorerIndustries, st \in ScorerStages}
  \cup
  {[op |-> op,
    args |-> [gtm_challenge |-> ch, company_description |-> d,
              industry |-> ind, business_stage |-> Str("seed")]] :
     op \in ScorerOps, ch \in {EmptyStr, Str("We")}, d \in ScorerDescriptions,
     ind \in ScorerIndustries \cup {Str("Enterprise")}}
  \cup
  {[op |-> "generateStrategicAnalysis",
    args |-> [epicScores |-> s, industry |-> ind, business_stage |-> Str("growth"),
              urls |-> u]] :
     s \in AnalysisScores, ind \in {Absent, Str("SaaS"), Str("Retail")},
     u \in UrlChoices}
  \cup
  {[op |-> "calculateDynamicEPICScores",
    args |-> [industry |-> ind, business_stage |-> st, team_size |-> ts,
              monthly_budget |-> b]] :
     ind \in DynamicIndustries, st \in DynamicStages, ts \in TeamSizes,
     b \in Budgets}
  \cup
  {[op |-> "generateImplementationRoadmap",
    args |-> [priorities |-> p, timeline |-> tl, budget_range |-> b,
              team_size |-> ts, industry |-> Absent]] :
     p \in PriorityLists(MaxPriorities), tl \in Timelines, b \in BudgetRanges,
     ts \in TeamRanges}
  \cup
  {[op |-> "generatePriorityRecommendations",
    args |-> [scores |-> s, focus_areas |-> f]] :
     s \in AuditScores, f \in FocusAreaChoices}
  \cup
  {[op |-> "generateConsultationReport", args |-> input] : input \in ReportInputs}
  \cup
  {[op |-> "analyzeHandler", args |-> req] : req \in AnalyzeRequests}
  \cup
  {[op |-> "createPayment", args |-> body] : body \in PaymentBodies}
  \cup
  {[op |-> "mcpSseHandler", args |-> req] : req \in SseRequests}
  \cup
  {[op |-> "CallTool", args |-> ps] : ps \in ToolParams}

\* the requests that may be served between a request and its repetition
OtherCalls ==
  {[op |-> "analyzeHandler",
    args |-> [method |-> "POST",
              body |-> [EmptyBody EXCEPT !.company_name = Str("Acme"),
                                         !.industry = Str("Finance")]]],
   [op |-> "generateConsultationReport",
    args |-> [client_name |-> Absent, company_name |-> Absent,
              company_description |-> Absent, gtm_challenge |-> Str("community"),
              business_stage |-> Absent, industry |-> Absent]]}

Pending == [status |-> "pending"]
NoProbe == [kind |-> "none"]

Init ==
  /\ call \in Calls
  /\ ret = Pending
  /\ now = 0
  /\ probe = NoProbe
  /\ consultationStorage = EmptyMap
  /\ progressTracking = EmptyMap
  /\ blobs = EmptyMap
  /\ invoked = {}
  /\ failed = {}

(***************************************************************************)
(* Actions: one per operation.  Each takes the pending call and returns.   *)
(***************************************************************************)
ScoreFramework ==
  /\ call.op = "analyzeEPICFramework"
  /\ ret = Pending
  /\ ret' = [status |-> "returned", scores |-> analyzeEPICFramework(call.args)]
  /\ UNCHANGED <<call, now, probe, server, invoked, failed>>

ScorerResult(op, a) ==
  CASE op = "analyzeEPIC" ->
         analyzeEPIC(a.gtm_challenge, a.industry, a.business_stage)
    [] op = "analyzeEPICScoresStdio" ->
         analyzeEPICScoresStdio(a.gtm_challenge, a.company_description,
                                a.industry, a.business_stage)
    [] op = "analyzeEPICScores" ->
         analyzeEPICScores(a.gtm_challenge, a.company_description,
                           a.industry, a.business_stage)
    [] op = "analyzeEPICScoresApify" ->
         analyzeEPICScoresApify(a.gtm_challenge, a.company_description,
                                a.industry, a.business_stage)

ScoreKeywords ==
  /\ call.op \in ScorerOps
  /\ ret = Pending
  /\ LET result == ScorerResult(call.op, call.args)
     IN ret' = IF Threw(result)
               THEN [status |-> "threw", exception |-> result.exception]
               ELSE [status |-> "returned", scores |-> result.scores,
                     primaryFocus |-> result.primaryFocus,
                     recommendation |->
                       IF call.op = "analyzeEPIC" THEN result.recommendation
                       ELSE epicFrameworkName(result.primaryFocus)]
  /\ UNCHANGED <<call, now, probe, server, invoked, failed>>

StrategicAnalysis ==
  /\ call.op = "generateStrategicAnalysis"
  /\ ret = Pending
  /\ LET inputData == [business_stage |-> call.args.business_stage,
                       industry |-> call.args.industry,
                       website_url |-> call.args.urls.website_url,
                       linkedin_url |-> call.args.urls.linkedin_url,
                       twitter_url |-> call.args.urls.twitter_url]
         analysis == generateStrategicAnalysis(inputData, call.args.epicScores,
                                               analyzeDigitalPresence(inputData))
     IN ret' = [status |-> "returned", analysis |-> analysis]
  /\ UNCHANGED <<call, now, probe, server, invoked, failed>>

DynamicScores ==
  /\ call.op = "calculateDynamicEPICScores"
  /\ ret = Pending
  /\ LET scores == calculateDynamicEPICScores(call.args)
     IN ret' = [status |-> "returned", scores |-> scores,
                primary_strategy |-> getPrimaryStrategy(scores),
                recommendations |-> getRecommendations(scores, call.args)]
  /\ UNCHANGED <<call, now, probe, server, invoked, failed>>

ImplementationRoadmap ==
  /\ call.op = "generateImplementationRoadmap"
  /\ ret = Pending
  /\ LET epicPriorities == mapPrioritiesToEPIC(call.args.priorities)
         roadmap == generateImplementationRoadmap(call.args)
     IN ret' = IF Threw(roadmap)
               THEN [status |-> "threw", exception |-> roadmap.exception]
               ELSE [status |-> "returned", epicPriorities |-> epicPriorities,
                     roadmap |-> roadmap]
  /\ UNCHANGED <<call, now, probe, server, invoked, failed>>

PriorityRecommendations ==
  /\ call.op = "generatePriorityRecommendations"
  /\ ret = Pending
  /\ ret' = [status |-> "returned",
             recommendations |->
               generatePriorityRecommendations(call.args, call.args.scores)]
  /\ UNCHANGED <<call, now, probe, server, invoked, failed>>

\* generateConsultationReport reads the clock once
ConsultationReport ==
  /\ call.op = "generateConsultationReport"
  /\ ret = Pending
  /\ \E timestamp \in now..MaxTime :
       /\ now' = timestamp
       /\ LET report == generateConsultationReport(call.args, timestamp)
          IN ret' = IF Threw(report)
                    THEN [status |-> "threw", exception |-> report.exception]
                    ELSE [status |-> "returned", report |-> report]
  /\ UNCHANGED <<call, probe, server, invoked, failed>>

\* the analyze.js handler
AnalyzeHandler ==
  /\ call.op = "analyzeHandler"
  /\ ret = Pending
  /\ \E a \in now..MaxTime : \E b \in a..MaxTime :
       \E c \in b..MaxTime : \E d \in c..MaxTime :
         /\ now' = d
         /\ ret' = [status |-> "returned",
                    response |-> AnalyzeResponse(call.args, <<a, b, c, d>>)]
  /\ UNCHANGED <<call, probe, server, invoked, failed>>

\* the mcp-sse endpoint answers a request
McpSse ==
  /\ call.op = "mcpSseHandler"
  /\ ret = Pending
  /\ ret' = [status |-> "returned", response |-> mcpSseHandler(call.args)]
  /\ UNCHANGED <<call, now, probe, server, invoked, failed>>

\* the stdio server answers a tools/call request
StdioCallTool ==
  /\ call.op = "CallTool"
  /\ ret = Pending
  /\ LET result == CallTool(call.args.name, call.args.arguments)
     IN ret' = IF Threw(result)
               THEN [status |-> "threw", exception |-> result.exception]
               ELSE [status |-> "returned",
                     response |-> [content |-> <<[type |-> "text", text |-> result]>>]]
  /\ UNCHANGED <<call, now, probe, server, invoked, failed>>

\* create-payment-beta.js answers a POST
CreatePayment ==
  /\ call.op = "createPayment"
  /\ ret = Pending
  /\ \E betaActive \in BOOLEAN, paypalUp \in BOOLEAN :
       ret' = [status |-> "returned",
               response |-> createPayment(call.args, betaActive, paypalUp)]
  /\ UNCHANGED <<call, now, probe, server, invoked, failed>>

\* the customer approves the order and payment-success.js is asked to
\* capture it
ApproveOrder ==
  /\ call.op = "createPayment"
  /\ ret.status = "returned"
  /\ "order" \in DOMAIN ret.response
  /\ \E st \in CaptureStatuses :
       call' = [op |-> "paymentSuccess",
                args |-> [status |-> st, value |-> ret.response.order.value,
                          custom_id |-> ret.response.order.custom_id]]
  /\ ret' = Pending
  /\ UNCHANGED <<now, probe, server, invoked, failed>>

\* payment-success.js answers the POST that captures the order
PaymentSuccess ==
  /\ call.op = "paymentSuccess"
  /\ ret = Pending
  /\ ret' = [status |-> "returned", response |-> paymentSuccess(call.args)]
  /\ UNCHANGED <<call, now, probe, server, invoked, failed>>

\* the challenge text with one more occurrence of a keyword, after or before it
WithKeyword(text, kw, atEnd) == IF atEnd THEN text \o kw ELSE kw \o text

KnownKeywords(op) ==
  IF op = "analyzeEPICFramework"
  THEN {challengeKeywords[k].kw : k \in 1..Len(challengeKeywords)}
  ELSE UNION {{epicFrameworkKeywords(l)[k] : k \in 1..Len(epicFrameworkKeywords(l))} :
                l \in LetterSet}

\* a scorer is called again with a keyword added to the challenge text
AddKeyword ==
  /\ call.op \in {"analyzeEPICFramework", "analyzeEPIC", "analyzeEPICScores"}
  /\ ret.status = "returned"
  /\ probe = NoProbe
  /\ call.args.gtm_challenge # Absent
  /\ \E kw \in KnownKeywords(call.op), atEnd \in BOOLEAN :
       /\ probe' = [kind |-> "keyword", call |-> call, ret |-> ret, kw |-> kw]
       /\ call' = [call EXCEPT !.args.gtm_challenge = WithKeyword(@, kw, atEnd)]
  /\ ret' = Pending
  /\ UNCHANGED <<now, server, invoked, failed>>

\* the roadmap asked for a small team with a small budget is asked again for
\* a large team with a large budget, priorities and timeline unchanged
RaiseCapacity ==
  /\ call.op = "generateImplementationRoadmap"
  /\ ret # Pending
  /\ probe = NoProbe
  /\ analyzeResourceConstraints(call.args.budget_range,
                                call.args.team_size).capacity = "constrained"
  /\ \E b \in BudgetRanges, ts \in TeamRanges :
       /\ analyzeResourceConstraints(b, ts).capacity = "high"
       /\ call' = [call EXCEPT !.args.budget_range = b, !.args.team_size = ts]
  /\ probe' = [kind |-> "capacity", call |-> call, ret |-> ret]
  /\ ret' = Pending
  /\ UNCHANGED <<now, server, invoked, failed>>

\* a request that was answered is remembered, to be sent again
Remember ==
  /\ call.op \in HandlerOps
  /\ ret.status \in {"returned", "threw"}
  /\ probe = NoProbe
  /\ probe' = [kind |-> "first", call |-> call, ret |-> ret, between |-> FALSE]
  /\ UNCHANGED <<call, ret, now, server, invoked, failed>>

\* another request is served in between
Another ==
  /\ probe.kind = "first"
  /\ ret # Pending
  /\ \E other \in OtherCalls : call' = other
  /\ ret' = Pending
  /\ probe' = [probe EXCEPT !.kind = "between", !.between = TRUE]
  /\ UNCHANGED <<now, server, invoked, failed>>

\* the remembered request is sent again
Again ==
  /\ probe.kind \in {"first", "between"}
  /\ ret # Pending
  /\ call' = probe.call
  /\ ret' = Pending
  /\ probe' = [probe EXCEPT !.kind = "again"]
  /\ UNCHANGED <<now, server, invoked, failed>>

Next ==
  \/ CreatePayment
  \/ ApproveOrder
  \/ PaymentSuccess
  \/ ScoreFramework
  \/ ScoreKeywords
  \/ StrategicAnalysis
  \/ DynamicScores
  \/ ImplementationRoadmap
  \/ PriorityRecommendations
  \/ ConsultationReport
  \/ AnalyzeHandler
  \/ McpSse
  \/ StdioCallTool
  \/ AddKeyword
  \/ RaiseCapacity
  \/ Remember
  \/ Another
  \/ Again

Spec == Init /\ [][Next]_vars

(***************************************************************************)
(* The deployed functions, serving one request after another while time    *)
(* passes: the variables of server are what a request leaves behind.       *)
(***************************************************************************)
MaxDay == 44
MaxRecords == 2

\* the days at which requests arrive
Instants == {0, PROGRESS_CHECK_INTERVAL, ProgressMinimumDays,
             PERSISTENCE_DURATION - 1, PERSISTENCE_DURATION, MaxDay}

McpArguments ==
  {[client_name |-> Str("Ana"), company_name |-> c, industry |-> Str("SaaS"),
    business_stage |-> Str("seed")] :
     c \in {Absent, Str("Acme"), Str("acme"), Str("Ana")}}

McpToolNames == {"gtm_alpha_real_consultation", "epic_progress_tracker",
                 "delete_everything"}

McpRequests ==
  {[id |-> 1, method |-> "tools/call", params |-> [name |-> n, arguments |-> a]] :
     n \in McpToolNames, a \in McpArguments}

\* the analysis analyze.js returns for the business when it is sent the
\* request its handler reads
AnalysisFor(args, stage) ==
  AnalyzeResponse([method |-> "POST",
                   body |-> [EmptyBody EXCEPT
                               !.company_name = args.company_name,
                               !.industry = args.industry,
                               !.business_stage = stage]],
                  <<now, now, now, now>>)

\* a POST body of mcp.js that is no JSON-RPC request: {} with some fields set
NoRequest ==
  [jsonrpc |-> Absent, action |-> Absent, client_name |-> Absent,
   company_name |-> Absent, industry |-> Absent, business_stage |-> Absent,
   gtm_challenge |-> Absent]
LegacyBody ==
  [NoRequest EXCEPT !.client_name = Str("Ana"), !.company_name = Str("Acme"),
                    !.gtm_challenge = Str("growth")]
DirectBodies ==
  {NoRequest, LegacyBody,
   [LegacyBody EXCEPT !.industry = Str("SaaS"), !.business_stage = Str("seed")],
   [LegacyBody EXCEPT !.action = Str("consultation"), !.industry = Str("SaaS"),
                      !.business_stage = Str("seed")],
   [LegacyBody EXCEPT !.action = Str("progress_check"), !.industry = Str("SaaS"),
                      !.business_stage = Str("seed")],
   [LegacyBody EXCEPT !.action = Str("export")]}
ExportsEvents ==
  {[httpMethod |-> "POST", body |-> b] : b \in DirectBodies \cup {Malformed}}
  \cup {[httpMethod |-> m, body |-> Malformed] : m \in {"GET", "DELETE"}}

ServerCalls ==
  {[op |-> "mcpHandler", args |-> req] : req \in McpRequests}
  \cup
  {[op |-> "exportsHandler", args |-> e] : e \in ExportsEvents}
  \cup
  {[op |-> "storeConsultation", args |-> [input |-> a, stage |-> st]] :
     a \in {b \in McpArguments : b.company_name \in {Str("Acme"), Str("acme")}},
     st \in {Str("venture-seed"), Str("enterprise")}}

ServerInit ==
  /\ call \in ServerCalls
  /\ ret = Pending
  /\ now = 0
  /\ probe = NoProbe
  /\ consultationStorage = EmptyMap
  /\ progressTracking = EmptyMap
  /\ blobs = EmptyMap
  /\ invoked = {}
  /\ failed = {}

\* a tool of mcp.js has run: its answer is returned, the Maps are as it left
\* them
Settle(outcome) ==
  /\ ret' = [status |-> "returned", response |-> outcome.result]
  /\ consultationStorage' = outcome.consultationStorage
  /\ progressTracking' = outcome.progressTracking
  /\ invoked' = outcome.invoked
  /\ failed' = outcome.failed
  /\ UNCHANGED <<call, now, probe, blobs>>

\* mcp.js answers a tools/call request
McpToolsCall ==
  /\ call.op = "mcpHandler"
  /\ ret = Pending
  /\ Settle(handleMCPProtocol(call.args))

\* the consultation handleRealConsultationWithPersistence keeps of an analysis
ConsultationDataOf(args, analysis) ==
  [consultation_output |-> analysis.data.consultation_output,
   epic_scores |-> analysis.data.epic_scores,
   primary_focus |-> analysis.data.primary_focus,
   consultation_id |-> analysis.data.consultation_id,
   client_info |-> [name |-> args.client_name,
                    company |-> args.company_name,
                    industry |-> args.industry,
                    stage |-> args.business_stage]]

StoreAnalysis(args, analysis) ==
  storeConsultation(generateBusinessKey(args), ConsultationDataOf(args, analysis),
                    analysis)

Stored(stored) ==
  /\ consultationStorage' = stored.consultationStorage
  /\ progressTracking' = stored.progressTracking
  /\ ret' = [status |-> "returned", record |-> stored.consultationRecord]
  /\ invoked' = {}
  /\ failed' = {}
  /\ UNCHANGED <<call, now, probe, blobs>>

\* businessCriticalHandler.storeConsultation is called with the consultation
\* of an analysis, as handleRealConsultationWithPersistence builds it
StoreConsultation ==
  /\ call.op = "storeConsultation"
  /\ ret = Pending
  /\ Len(getProgressHistory(generateBusinessKey(call.args.input))) < MaxRecords
  /\ Stored(StoreAnalysis(call.args.input,
                          AnalysisFor(call.args.input, call.args.stage)))

\* time passes and the next request arrives
NextRequest ==
  /\ ret # Pending
  /\ \E t \in Instants : t >= now /\ now' = t
  /\ call' \in ServerCalls
  /\ ret' = Pending
  /\ invoked' = {}
  /\ failed' = {}
  /\ UNCHANGED <<probe, server>>

\* exports.handler of mcp.js answers a request that is no JSON-RPC request
McpExports ==
  /\ call.op = "exportsHandler"
  /\ ret = Pending
  /\ Settle(exportsHandler(call.args))

ServerNext ==
  \/ McpToolsCall
  \/ McpExports
  \/ StoreConsultation
  \/ NextRequest

ServerSpec == ServerInit /\ [][ServerNext]_vars

(***************************************************************************)
(* The endpoints that write blobs, serving one request after another.      *)
(***************************************************************************)
MaxBlobs == 2

FormBodies ==
  {[company_name |-> c, industry |-> Str("SaaS"), business_stage |-> Absent,
    team_size |-> Str("20"), monthly_budget |-> Absent] :
     c \in {Absent, Str("Acme"), Str("Acmos")}}

EpicScoresRequests ==
  {[method |-> "POST", consultation_id |-> Absent, body |-> b] :
     b \in FormBodies \cup {Malformed}}
  \cup {[method |-> "GET", consultation_id |-> id, body |-> Malformed] :
          id \in {Absent, <<"GTM", "ACM", 0>>}}
  \cup {[method |-> m, consultation_id |-> Absent, body |-> Malformed] :
          m \in {"OPTIONS", "DELETE"}}

SubmitRequests ==
  {[method |-> "POST", body |-> b] :
     b \in {f \in FormBodies : f.company_name # Str("Acmos")} \cup {Malformed}}
  \cup {[method |-> m, body |-> Malformed] : m \in {"GET", "OPTIONS"}}
  \cup {[method |-> "PUT",
         body |-> [company_name |-> Str("Acme"), industry |-> Str("SaaS"),
                   business_stage |-> Absent, team_size |-> Absent,
                   monthly_budget |-> Absent]]}

StoreCalls ==
  {[op |-> "epicScoresHandler", args |-> req] : req \in EpicScoresRequests}
  \cup {[op |-> "submitConsultation", args |-> req] : req \in SubmitRequests}
  \cup {[op |-> "storePreviousAudit",
         args |-> [consultationId |-> <<"AUDIT", "acme">>,
                   auditData |-> [epic_scores |-> s]]] :
          s \in {Vec(50, 50, 50, 50), Vec(60, 50, 50, 50)}}

StoreInit ==
  /\ call \in StoreCalls
  /\ ret = Pending
  /\ now = 0
  /\ probe = NoProbe
  /\ consultationStorage = EmptyMap
  /\ progressTracking = EmptyMap
  /\ blobs = EmptyMap
  /\ invoked = {}
  /\ failed = {}

Serve(served) ==
  /\ \/ DOMAIN served.blobs = DOMAIN blobs
     \/ Cardinality(DOMAIN blobs) < MaxBlobs
  /\ ret' = [status |-> "returned", response |-> served.response]
  /\ blobs' = served.blobs
  /\ invoked' = served.invoked
  /\ failed' = served.failed
  /\ UNCHANGED <<call, now, probe, consultationStorage, progressTracking>>

\* epic-scores.js answers a request, the blob store up or down
EpicScores ==
  /\ call.op = "epicScoresHandler"
  /\ ret = Pending
  /\ \E storeUp \in BOOLEAN : Serve(epicScoresHandler(call.args, storeUp))

\* submit-consultation.js answers a request
SubmitConsultation ==
  /\ call.op = "submitConsultation"
  /\ ret = Pending
  /\ \E fetchUp \in BOOLEAN, storeUp \in BOOLEAN :
       Serve(submitConsultation(call.args, fetchUp, storeUp))

\* epic-audit.js stores an audit
StorePreviousAudit ==
  /\ call.op = "storePreviousAudit"
  /\ ret = Pending
  /\ \E storeUp \in BOOLEAN :
       Serve(storePreviousAudit(call.args.consultationId, call.args.auditData,
                                storeUp))

\* time passes and the next request arrives
NextStoreRequest ==
  /\ ret # Pending
  /\ \E t \in Instants : t >= now /\ now' = t
  /\ call' \in StoreCalls
  /\ ret' = Pending
  /\ invoked' = {}
  /\ failed' = {}
  /\ UNCHANGED <<probe, server>>

StoreNext ==
  \/ EpicScores
  \/ SubmitConsultation
  \/ StorePreviousAudit
  \/ NextStoreRequest

StoreSpec == StoreInit /\ [][StoreNext]_vars

(***************************************************************************)
(* The two MCP tool servers beside the endpoints that keep state: a tool   *)
(* call is answered, other requests are served, the same call is sent      *)
(* again.                                                                  *)
(***************************************************************************)
RepeatedToolParams ==
  {[name |-> "gtm_consultation",
    arguments |-> [NoArguments EXCEPT !.gtm_challenge = ch]] :
     ch \in {Absent, Str("community"), Str("enterprise")}}
  \cup {[name |-> "epic_audit",
         arguments |-> [NoArguments EXCEPT !.challenge = ch,
                                           !.business_stage = Str("seed")]] :
          ch \in {Absent, Str("community")}}
  \cup {[name |-> "generate_roadmap",
         arguments |-> [NoArguments EXCEPT !.primary_focus = f]] :
          f \in {Absent, Str("E"), Str("C")}}

RepeatedToolCalls ==
  {[op |-> "mcpSseHandler",
    args |-> [method |-> "POST",
              body |-> [id |-> 1, method |-> "tools/call", params |-> ps]]] :
     ps \in RepeatedToolParams}
  \cup {[op |-> "CallTool", args |-> ps] : ps \in RepeatedToolParams}

\* the requests served in between: they store a consultation, write a blob,
\* or call another tool
InterleavedCalls ==
  {c \in ServerCalls : /\ c.op = "storeConsultation"
                       /\ c.args.input.company_name = Str("Acme")}
  \cup {c \in StoreCalls : /\ c.op = "epicScoresHandler"
                           /\ c.args.method = "POST"
                           /\ ~IsMalformed(c.args.body)
                           /\ c.args.body.company_name = Str("Acme")}
  \cup {[op |-> "CallTool", args |-> ps] :
          ps \in {q \in RepeatedToolParams : q.name = "generate_roadmap"}}

ToolInit ==
  /\ call \in RepeatedToolCalls
  /\ ret = Pending
  /\ now = 0
  /\ probe = NoProbe
  /\ consultationStorage = EmptyMap
  /\ progressTracking = EmptyMap
  /\ blobs = EmptyMap
  /\ invoked = {}
  /\ failed = {}

\* a tool call that was answered is remembered, to be sent again
RememberTool ==
  /\ call.op \in ToolOps
  /\ ret.status \in {"returned", "threw"}
  /\ probe = NoProbe
  /\ probe' = [kind |-> "first", call |-> call, ret |-> ret, between |-> FALSE]
  /\ UNCHANGED <<call, ret, now, server, invoked, failed>>

\* another request arrives before the remembered one is sent again
Interleave ==
  /\ probe.kind \in {"first", "between"}
  /\ ret # Pending
  /\ call' \in InterleavedCalls
  /\ ret' = Pending
  /\ probe' = [probe EXCEPT !.kind = "between", !.between = TRUE]
  /\ invoked' = {}
  /\ failed' = {}
  /\ UNCHANGED <<now, server>>

\* time passes and the remembered request is sent again
AskAgain ==
  /\ probe.kind \in {"first", "between"}
  /\ ret # Pending
  /\ \E t \in Instants : t >= now /\ now' = t
  /\ call' = probe.call
  /\ ret' = Pending
  /\ probe' = [probe EXCEPT !.kind = "again"]
  /\ invoked' = {}
  /\ failed' = {}
  /\ UNCHANGED server

ToolNext ==
  \/ McpSse
  \/ StdioCallTool
  \/ RememberTool
  \/ Interleave
  \/ StoreConsultation
  \/ EpicScores
  \/ AskAgain

ToolSpec == ToolInit /\ [][ToolNext]_vars

(***************************************************************************)
(* mcp.js storing one consultation a day: the progress history of a        *)
(* business beside the list of every record that was added to it.          *)
(***************************************************************************)
MaxAdded == 13

HistoryArguments ==
  {a \in McpArguments : a.company_name \in {Str("Acme"), Str("Ana")}}
HistoryCalls ==
  {[op |-> "storeConsultation", args |-> [input |-> a, stage |-> Str("venture-seed")]] :
     a \in HistoryArguments}

\* probe.added: per business key, every progress record in the order added
HistoryInit ==
  /\ call \in HistoryCalls
  /\ ret = Pending
  /\ now = 0
  /\ probe = [kind |-> "history", added |-> EmptyMap, total |-> 0]
  /\ consultationStorage = EmptyMap
  /\ progressTracking = EmptyMap
  /\ blobs = EmptyMap
  /\ invoked = {}
  /\ failed = {}

ProgressRecordOf(consultationRecord) ==
  [timestamp |-> consultationRecord.timestamp,
   epicScores |-> consultationRecord.epicScores,
   primaryFocus |-> consultationRecord.primaryFocus,
   consultationId |-> consultationRecord.consultationId]

\* storeConsultation is called, and the record it adds is noted
StoreAndNote ==
  /\ call.op = "storeConsultation"
  /\ ret = Pending
  /\ probe.total < MaxAdded
  /\ LET businessKey == generateBusinessKey(call.args.input)
         stored == StoreAnalysis(call.args.input,
                                 AnalysisFor(call.args.input, call.args.stage))
         before == IF MapHas(probe.added, businessKey)
                   THEN probe.added[businessKey] ELSE <<>>
     IN /\ consultationStorage' = stored.consultationStorage
        /\ progressTracking' = stored.progressTracking
        /\ ret' = [status |-> "returned", record |-> stored.consultationRecord]
        /\ probe' = [probe EXCEPT
                       !.added = MapSet(@, businessKey,
                                        Append(before,
                                               ProgressRecordOf(stored.consultationRecord))),
                       !.total = @ + 1]
  /\ UNCHANGED <<call, now, blobs, invoked, failed>>

\* a day passes and the next consultation is to be stored
NextDay ==
  /\ ret # Pending
  /\ now' = now + 1
  /\ call' \in HistoryCalls
  /\ ret' = Pending
  /\ UNCHANGED <<probe, server, invoked, failed>>

HistoryNext ==
  \/ StoreAndNote
  \/ NextDay

HistorySpec == HistoryInit /\ [][HistoryNext]_vars

(***************************************************************************)
(* epic-audit.js, serving one request after another.                       *)
(***************************************************************************)
AuditBodies ==
  {[company |-> c, company_id |-> id] :
     c \in {Absent, Str("Acme"), <<"Acme", "Growth">>},
     id \in {Absent, Str("EPIC-AUDIT-")}}

AuditRequests ==
  {[method |-> "POST", body |-> b] : b \in AuditBodies \cup {Malformed}}
  \cup {[method |-> m, body |-> Malformed] : m \in {"OPTIONS", "GET"}}

AuditCalls == {[op |-> "epicAuditHandler", args |-> req] : req \in AuditRequests}

AuditInit ==
  /\ call \in AuditCalls
  /\ ret = Pending
  /\ now = 0
  /\ probe = NoProbe
  /\ consultationStorage = EmptyMap
  /\ progressTracking = EmptyMap
  /\ blobs = EmptyMap
  /\ invoked = {}
  /\ failed = {}

\* epic-audit.js answers a request, the blob store up or down
EpicAudit ==
  /\ call.op = "epicAuditHandler"
  /\ ret = Pending
  /\ \E listUp \in BOOLEAN, setUp \in BOOLEAN :
       Serve(epicAuditHandler(call.args, listUp, setUp))

\* time passes and the next request arrives
NextAuditRequest ==
  /\ ret # Pending
  /\ \E t \in Instants : t >= now /\ now' = t
  /\ call' \in AuditCalls
  /\ ret' = Pending
  /\ invoked' = {}
  /\ failed' = {}
  /\ UNCHANGED <<probe, server>>

AuditNext ==
  \/ EpicAudit
  \/ NextAuditRequest

AuditSpec == AuditInit /\ [][AuditNext]_vars

(***************************************************************************)
(* mcp.js serving consultations for companies whose names differ only in   *)
(* characters the business key replaces.                                   *)
(***************************************************************************)
IsolationArguments ==
  {[client_name |-> Str("Ana"), company_name |-> c, industry |-> ind,
    business_stage |-> st] :
     c \in {Str("A&B"), Str("A+B"), Str("Acme")},
     ind \in {Str("SaaS"), Str("saas")}, st \in {Str("seed"), Str("growth")}}

IsolationCalls ==
  {[op |-> "mcpHandler",
    args |-> [id |-> 1, method |-> "tools/call",
              params |-> [name |-> "gtm_alpha_real_consultation", arguments |-> a]]] :
     a \in IsolationArguments}
  \cup
  {[op |-> "storeConsultation", args |-> [input |-> a, stage |-> Str("venture-seed")]] :
     a \in {b \in IsolationArguments : /\ b.company_name = Str("A&B")
                                        /\ b.industry = Str("SaaS")}}

IsolationInit ==
  /\ call \in IsolationCalls
  /\ ret = Pending
  /\ now = 0
  /\ probe = NoProbe
  /\ consultationStorage = EmptyMap
  /\ progressTracking = EmptyMap
  /\ blobs = EmptyMap
  /\ invoked = {}
  /\ failed = {}

\* time passes and the next request arrives
NextIsolationRequest ==
  /\ ret # Pending
  /\ \E t \in Instants : t >= now /\ now' = t
  /\ call' \in IsolationCalls
  /\ ret' = Pending
  /\ invoked' = {}
  /\ failed' = {}
  /\ UNCHANGED <<probe, server>>

IsolationNext ==
  \/ McpToolsCall
  \/ StoreConsultation
  \/ NextIsolationRequest

IsolationSpec == IsolationInit /\ [][IsolationNext]_vars

(***************************************************************************)
(* The business context of a consultation: gtm_alpha_real_consultation is  *)
(* asked with several stages and challenge texts, while the store holds    *)
(* nothing or a consultation of another business.                          *)
(***************************************************************************)
ContextArguments ==
  {[client_name |-> Str("Ana"), company_name |-> c, industry |-> Str("SaaS"),
    business_stage |-> st, gtm_challenge |-> ch] :
     c \in {Str("Acme"), Str("Ana")},
     st \in {Str("seed"), Str("growth"), Str("enterprise")},
     ch \in {Absent, Str("community"), Str("enterprise")}}

ContextCalls ==
  {[op |-> "mcpHandler",
    args |-> [id |-> 1, method |-> "tools/call",
              params |-> [name |-> "gtm_alpha_real_consultation", arguments |-> a]]] :
     a \in ContextArguments}
  \cup
  {[op |-> "storeConsultation", args |-> [input |-> a, stage |-> Str("venture-seed")]] :
     a \in {b \in ContextArguments : /\ b.company_name = Str("Ana")
                                     /\ b.gtm_challenge = Absent}}

ContextInit ==
  /\ call \in ContextCalls
  /\ ret = Pending
  /\ now = 0
  /\ probe = NoProbe
  /\ consultationStorage = EmptyMap
  /\ progressTracking = EmptyMap
  /\ blobs = EmptyMap
  /\ invoked = {}
  /\ failed = {}

NextContextRequest ==
  /\ ret # Pending
  /\ \E t \in {0, PERSISTENCE_DURATION} : t >= now /\ now' = t
  /\ call' \in ContextCalls
  /\ ret' = Pending
  /\ invoked' = {}
  /\ failed' = {}
  /\ UNCHANGED <<probe, server>>

ContextNext ==
  \/ McpToolsCall
  \/ StoreConsultation
  \/ NextContextRequest

ContextSpec == ContextInit /\ [][ContextNext]_vars

(***************************************************************************)
(* Properties                                                              *)
(***************************************************************************)
Returned(op) == call.op = op /\ ret.status = "returned"
InRange(x) == ~IsNaN(x) /\ 0 <= x /\ x <= 100
PhaseKeySet == {PhaseKeys[k] : k \in 1..Len(PhaseKeys)}
AnalyzeAnswered ==
  /\ call.op = "analyzeHandler"
  /\ call.args.method = "POST"
  /\ ret.status = "returned"
  /\ ret.response.status = 200

\* C1: every EPIC score returned by analyzeEPICFramework and by
\* calculateDynamicEPICScores is a number in 0..100, for every input
C1_ScoresInRange ==
  (Returned("analyzeEPICFramework") \/ Returned("calculateDynamicEPICScores"))
    => \A l \in LetterSet : InRange(ret.scores[l])

\* the scorers return NaN for a stage or industry named like a member of
\* Object.prototype
C1_NaNReturned ==
  /\ Returned("analyzeEPICFramework")
  /\ call.args.business_stage = Str("constructor")
  /\ \A l \in LetterSet : IsNaN(ret.scores[l])

\* C2: every consultation computation returns a complete result: no scorer or
\* report throws, and every POST to the analyze handler is answered with the
\* consultation (status 200), also when stage, industry or company are absent
C2_Total ==
  /\ (call.op \in ScorerOps \cup {"generateConsultationReport"} /\ ret # Pending)
       => ret.status = "returned"
  /\ (call.op = "analyzeHandler" /\ call.args.method = "POST" /\ ret # Pending)
       => ret.response.status = 200

\* the scorer of class GTMAlphaConsultant throws when no business stage is passed
C2_ScorerThrew ==
  /\ call.op = "analyzeEPICScoresApify"
  /\ call.args.business_stage = Absent
  /\ ret.status = "threw"

WithoutClock(op, result) ==
  IF result.status # "returned" THEN result
  ELSE IF op = "generateConsultationReport"
  THEN [result EXCEPT !.report.timestamp = 0]
  ELSE IF "runId" \notin DOMAIN result.response THEN result
  ELSE [result EXCEPT !.response.runId = 0,
                      !.response.data.consultation_id = 0,
                      !.response.data.timestamp = 0,
                      !.response.data.report_url[2].consultation_id = 0,
                      !.response.data.report_url[2].generated = 0,
                      !.response.analysis.consultation_id = 0,
                      !.response.analysis.timestamp = 0,
                      !.response.analysis.html_report.consultation_id = 0,
                      !.response.analysis.html_report.generated = 0]

C4_PrimaryNotSecondary ==
  /\ Returned("generateStrategicAnalysis")
       => ret.analysis.primaryFocus # ret.analysis.secondaryFocus
  /\ AnalyzeAnswered
       => ret.response.analysis.market_insights.primary_focus
            # ret.response.analysis.market_insights.secondary_focus
  /\ Returned("generateImplementationRoadmap")
       => /\ ret.epicPriorities.primary \in LetterSet
          /\ ret.epicPriorities.secondary \in LetterSet
          /\ ret.epicPriorities.primary # ret.epicPriorities.secondary

\* the analysis of a score vector whose four letters tie
C4_FourWayTie ==
  /\ Returned("generateStrategicAnalysis")
  /\ call.args.epicScores = Vec(70, 70, 70, 70)
  /\ ret.analysis.primaryFocus = EcosystemFocus
  /\ ret.analysis.secondaryFocus = ProductFocus

LettersAtMax(scores) ==
  {l \in LetterSet : StrictEq(scores[l], MaxOfScores(scores))}
FocusLetter(focus) ==
  CHOOSE l \in LetterSet : secondaryMap(l) = focus

\* C5: the primary focus is a letter whose score is the maximum, and it is P
\* whenever two or more letters tie for the maximum
C5_TiesGoToP ==
  /\ (call.op \in ScorerOps /\ ret.status = "returned")
       => /\ ret.primaryFocus \in LettersAtMax(ret.scores)
          /\ Cardinality(LettersAtMax(ret.scores)) >= 2 => ret.primaryFocus = "P"
  /\ Returned("generateStrategicAnalysis")
       => /\ FocusLetter(ret.analysis.primaryFocus) \in LettersAtMax(call.args.epicScores)
          /\ Cardinality(LettersAtMax(call.args.epicScores)) >= 2
               => ret.analysis.primaryFocus = ProductFocus

\* with every score 0 the keyword scorer names E
C5_TieWentToE ==
  /\ Returned("analyzeEPIC")
  /\ ret.scores = Vec(0, 0, 0, 0)
  /\ ret.primaryFocus = "E"

\* C6: generateActionableRecommendations and generatePriorityRecommendations
\* return at most 8 recommendations
C6_AtMostEight ==
  /\ Returned("generateStrategicAnalysis") => Len(ret.analysis.recommendations) <= 8
  /\ AnalyzeAnswered => Len(ret.response.analysis.recommendations) <= 8
  /\ Returned("generatePriorityRecommendations") => Len(ret.recommendations) <= 8

\* all four scores are high, the industry and the digital analysis add more,
\* and 8 recommendations are returned
C6_CapReached ==
  /\ Returned("generateStrategicAnalysis")
  /\ call.args.epicScores = Vec(100, 100, 100, 100)
  /\ call.args.industry = Str("SaaS")
  /\ Len(ret.analysis.recommendations) = 8

\* C7: the recommendation list is never empty: when no score reaches the
\* threshold the generator falls back to the highest-scoring letter
C7_NeverEmpty ==
  /\ Returned("generateStrategicAnalysis") => Len(ret.analysis.recommendations) > 0
  /\ AnalyzeAnswered => Len(ret.response.analysis.recommendations) > 0
  /\ Returned("calculateDynamicEPICScores") => Len(ret.recommendations) > 0
  /\ Returned("generatePriorityRecommendations") => Len(ret.recommendations) > 0

\* the analyze handler answers a consultation with no recommendation
C7_EmptyList ==
  /\ AnalyzeAnswered
  /\ call.args.body.industry = Str("Retail")
  /\ ret.response.analysis.recommendations = <<>>

TaskCountOk(roadmap, key) == Len(roadmap[key]) >= 3 /\ Len(roadmap[key]) <= 5

\* C8 as stated: every roadmap holds the four phases days_30, days_60,
\* first_quarter and second_quarter, with 3 to 5 tasks each
C8_AllFourPhases ==
  /\ Returned("generateStrategicAnalysis")
       => \A key \in PhaseKeySet :
            key \in DOMAIN ret.analysis.roadmap /\ TaskCountOk(ret.analysis.roadmap, key)
  /\ Returned("generateImplementationRoadmap")
       => \A key \in PhaseKeySet :
            key \in DOMAIN ret.roadmap /\ TaskCountOk(ret.roadmap, key)

\* the phases fitToTimeline keeps for a timeline
PhasesFor(timeline) ==
  IF timeline = <<"30", "days">> THEN {"days_30"}
  ELSE IF timeline = <<"60", "days">> THEN {"days_30", "days_60"}
  ELSE IF timeline \in {<<"first", "quarter">>, <<"90", "days">>}
  THEN {"days_30", "days_60", "first_quarter"}
  ELSE PhaseKeySet

\* C8: the roadmap of generateGTMRoadmap holds the four phases with 3 tasks
\* each; the roadmap of ROADMAP_ENGINE holds the phases up to the requested
\* timeline (all four unless the timeline is '30 days', '60 days',
\* 'first quarter' or '90 days'), days_30 always, with 5 tasks each
C8_PhasesUpToTimeline ==
  /\ Returned("generateStrategicAnalysis")
       => /\ DOMAIN ret.analysis.roadmap = PhaseKeySet
          /\ \A key \in PhaseKeySet : Len(ret.analysis.roadmap[key]) = 3
  /\ Returned("generateImplementationRoadmap")
       => /\ DOMAIN ret.roadmap = PhasesFor(call.args.timeline) \cup {"focus"}
          /\ \A key \in PhasesFor(call.args.timeline) : Len(ret.roadmap[key]) = 5

\* a roadmap asked for 30 days holds the first phase only
C8_ThirtyDays ==
  /\ Returned("generateImplementationRoadmap")
  /\ call.args.timeline = <<"30", "days">>
  /\ DOMAIN ret.roadmap = {"days_30", "focus"}
  /\ Len(ret.roadmap.days_30) = 5

\* C9: a scorer called again with one more occurrence of a known keyword in
\* the challenge text, all else unchanged, returns no score lower than before
C9_KeywordMonotone ==
  (probe.kind = "keyword" /\ ret.status = "returned")
    => \A l \in LetterSet : ~Lt(ret.scores[l], probe.ret.scores[l])

\* a keyword was added and raised a score to the clamp of 100
C9_RaisedToClamp ==
  /\ probe.kind = "keyword"
  /\ Returned("analyzeEPICFramework")
  /\ ret.scores.E = 100
  /\ Lt(probe.ret.scores.E, 100)

\* the text a keyword scorer matches its keywords against
MatchedText(op, a) ==
  IF op = "analyzeEPIC"
  THEN toLowerCase(TemplateStr(a.gtm_challenge) \o TemplateStr(a.industry))
  ELSE toLowerCase(TemplateStr(a.gtm_challenge) \o TemplateStr(a.company_description)
                   \o TemplateStr(a.industry))

ProductLedInput(op, a) ==
  LET text == MatchedText(op, a)
  IN /\ includes(text, <<"product-led">>)
     /\ includes(text, <<"onboarding">>)
     /\ \A l \in {"E", "I", "C"} :
          \A k \in 1..Len(epicFrameworkKeywords(l)) :
            ~includes(text, epicFrameworkKeywords(l)[k])
     /\ a.business_stage # Absent
     /\ includes(a.business_stage, <<"seed">>)
     /\ ~includes(a.business_stage, <<"series">>)

\* C10: when the matched text holds "product-led" and "onboarding" and no
\* keyword of E, I or C, and the stage contains "seed" and not "series", P is
\* strictly the highest score, the primary focus is P and the recommendation
\* is "Product-Led Growth Acceleration"
C10_ProductLedHighest ==
  (/\ call.op \in {"analyzeEPIC", "analyzeEPICScoresStdio"}
   /\ ret.status = "returned"
   /\ ProductLedInput(call.op, call.args))
    => /\ \A l \in {"E", "I", "C"} : ret.scores.P > ret.scores[l]
       /\ ret.primaryFocus = "P"
       /\ ret.recommendation = "Product-Led Growth Acceleration"

\* the epic_audit of a seed-stage SaaS company asking about product-led
\* onboarding
C10_SeedStageAudit ==
  /\ Returned("analyzeEPIC")
  /\ call.args.gtm_challenge = <<"product-led", "onboarding">>
  /\ call.args.industry = Str("SaaS")
  /\ call.args.business_stage = Str("seed")
  /\ ret.scores = Vec(0, 3, 0, 0)

\* the arguments and the answer of a gtm_consultation tool call
IsToolCall(name) ==
  \/ /\ call.op = "CallTool"
     /\ call.args.name = name
  \/ /\ call.op = "mcpSseHandler"
     /\ call.args.method = "POST"
     /\ ~IsMalformed(call.args.body)
     /\ call.args.body.method = "tools/call"
     /\ call.args.body.params.name = name
ToolArguments ==
  IF call.op = "CallTool" THEN call.args.arguments
  ELSE call.args.body.params.arguments
ToolAnswered(name) ==
  /\ IsToolCall(name)
  /\ ret.status = "returned"
  /\ call.op = "mcpSseHandler" => ret.response.status = 200
ToolResult ==
  IF call.op = "CallTool" THEN ret.response.content[1].text
  ELSE ret.response.body.result.content[1].text

\* the text and the stage the scorer of a gtm_consultation call works on
ConsultationText(op, a) ==
  IF op = "mcpSseHandler"
  THEN toLowerCase(OrElse(a.gtm_challenge, EmptyStr)
                   \o OrElse(a.industry, Str("Technology")))
  ELSE toLowerCase(DefaultTo(a.gtm_challenge, EmptyStr)
                   \o DefaultTo(a.company_description, EmptyStr)
                   \o DefaultTo(a.industry, Str("Technology")))
ConsultationStage(op, a) ==
  IF op = "mcpSseHandler" THEN OrElse(a.business_stage, Str("growth"))
  ELSE DefaultTo(a.business_stage, Str("growth"))

EnterpriseInput(text, stage) ==
  /\ includes(text, <<"enterprise">>) \/ includes(text, <<"b2b">>)
  /\ \A l \in {"P", "I", "C"} :
       \A k \in 1..Len(epicFrameworkKeywords(l)) :
         ~includes(text, epicFrameworkKeywords(l)[k])
  /\ stage # Absent
  /\ includes(stage, <<"series">>)

\* C11: when the matched text holds "enterprise" or "b2b" and no keyword of
\* P, I or C, and the stage contains "series", E is strictly the highest
\* score, the primary focus is the Ecosystem component, and the output of
\* gtm_consultation contains the Calendly link
C11_EnterpriseHighest ==
  /\ (/\ call.op \in {"analyzeEPIC", "analyzeEPICScoresStdio"}
      /\ ret.status = "returned"
      /\ EnterpriseInput(MatchedText(call.op, call.args), call.args.business_stage))
       => /\ \A l \in {"P", "I", "C"} : ret.scores.E > ret.scores[l]
          /\ ret.primaryFocus = "E"
  /\ (/\ IsToolCall("gtm_consultation")
      /\ ret # Pending
      /\ EnterpriseInput(ConsultationText(call.op, ToolArguments),
                         ConsultationStage(call.op, ToolArguments)))
       => /\ ToolAnswered("gtm_consultation")
          /\ \A l \in {"P", "I", "C"} :
               ToolResult.epic_scores.E > ToolResult.epic_scores[l]
          /\ ToolResult.primary_focus
               = (IF call.op = "CallTool" THEN epicFrameworkName("E")
                  ELSE sseFrameworkName("E"))
          /\ \E part \in DOMAIN ToolResult.consultation_output :
               /\ part = "deeper_consultation"
               /\ ToolResult.consultation_output[part] = CalendlyLink

\* the gtm_consultation of a series-A company asking about enterprise sales
C11_SeriesAConsultation ==
  /\ ToolAnswered("gtm_consultation")
  /\ call.op = "mcpSseHandler"
  /\ ToolArguments.gtm_challenge = <<"We", "Enterprise">>
  /\ ToolArguments.business_stage = Str("venture-series-a")
  /\ ToolResult.epic_scores = Vec(3, 0, 0, 0)
  /\ ToolResult.primary_focus = "Ecosystem and ABM-led Sales Motion"

\* the calls whose input is the empty object {}
EmptyDynamicInput ==
  /\ Returned("calculateDynamicEPICScores")
  /\ \A field \in DOMAIN call.args : call.args[field] = Absent
EmptyFrameworkInput ==
  /\ Returned("analyzeEPICFramework")
  /\ \A field \in DOMAIN call.args : call.args[field] = Absent
EmptyConsultationInput ==
  /\ ToolAnswered("gtm_consultation")
  /\ ToolArguments = NoArguments
AllEqual(scores) == \A l \in LetterSet : scores[l] = scores.E

\* C12 as stated: for the empty input {} the scorer returns four equal scores,
\* 30/30/30/30 from calculateDynamicEPICScores
C12_EmptyInputEqual ==
  /\ EmptyDynamicInput => ret.scores = Vec(30, 30, 30, 30)
  /\ EmptyFrameworkInput => AllEqual(ret.scores)

\* C12: for the empty input {} calculateDynamicEPICScores returns the base 30
\* plus the adjustments of its defaults, industry 'General' and stage 'Growth'
\* (E 45, P 45, I 50, C 40); analyzeEPICFramework returns the weights of its
\* default stage 'bootstrapped-pmf' (E 25, P 35, I 25, C 15); only the keyword
\* scorers behind gtm_consultation return four equal scores (all 0)
C12_EmptyInputDefaults ==
  /\ EmptyDynamicInput => ret.scores = Vec(45, 45, 50, 40)
  /\ EmptyFrameworkInput => ret.scores = Vec(25, 35, 25, 15)
  /\ EmptyConsultationInput => ToolResult.epic_scores = Vec(0, 0, 0, 0)

\* calculateDynamicEPICScores({}) has returned, I being the highest score
C12_EmptyDynamic ==
  /\ EmptyDynamicInput
  /\ ret.scores.I = 50
  /\ ret.scores.C = 40

\* the phases of a roadmap (its keys other than focus)
PhasesOf(roadmap) == DOMAIN roadmap \ {"focus"}

\* C13: with the same priorities and timeline, so the same primary and
\* secondary focus, every phase of the roadmap planned for constrained
\* capacity is a phase of the roadmap planned for high capacity and holds no
\* more tasks than it
C13_CapacityMonotone ==
  (/\ probe.kind = "capacity"
   /\ ret.status = "returned"
   /\ probe.ret.status = "returned")
    => /\ ret.epicPriorities = probe.ret.epicPriorities
       /\ \A phase \in PhasesOf(probe.ret.roadmap) :
            /\ phase \in PhasesOf(ret.roadmap)
            /\ Len(probe.ret.roadmap[phase]) <= Len(ret.roadmap[phase])

\* the same roadmap was planned for constrained and for high capacity: the
\* tasks are the same, the deadlines moved from day 14 to day 29
C13_PlannedTwice ==
  /\ probe.kind = "capacity"
  /\ Returned("generateImplementationRoadmap")
  /\ probe.ret.status = "returned"
  /\ probe.call.args.budget_range = Str("<25k")
  /\ call.args.budget_range = Str("500k+")
  /\ Len(probe.ret.roadmap.days_30) = 5
  /\ Len(ret.roadmap.days_30) = 5
  /\ probe.ret.roadmap.days_30[1].deadline = 14
  /\ ret.roadmap.days_30[1].deadline = 29

ThreeFieldScorers ==
  {"analyzeEPICScoresStdio", "analyzeEPICScores", "analyzeEPICScoresApify"}

\* every keyword of every letter found in the field counts in the scores
CountsKeywordsOf(field, scores) ==
  \A l \in LetterSet : scores[l] >= KeywordHits(toLowerCase(TemplateStr(field)), l)

\* the industry names no entry of industryModifiers
UnlistedIndustry(industry) ==
  /\ industry # Absent
  /\ industry \notin DOMAIN industryModifiers
  /\ industry \notin ObjectPrototypeKeys

\* C14 as stated: in every scorer a keyword found in the challenge text, in
\* the company description or in the industry raises its letter's score
C14_ConcatenationEverywhere ==
  /\ (call.op \in ThreeFieldScorers /\ ret.status = "returned")
       => /\ CountsKeywordsOf(call.args.gtm_challenge, ret.scores)
          /\ CountsKeywordsOf(call.args.company_description, ret.scores)
          /\ CountsKeywordsOf(call.args.industry, ret.scores)
  /\ ToolAnswered("gtm_consultation")
       => CountsKeywordsOf(DefaultTo(ToolArguments.company_description, EmptyStr),
                           ToolResult.epic_scores)
  /\ (/\ Returned("analyzeEPICFramework")
      /\ UnlistedIndustry(call.args.industry)
      /\ \E k \in 1..Len(challengeKeywords) :
           includes(toLowerCase(call.args.industry), challengeKeywords[k].kw))
       => \E l \in LetterSet :
            ret.scores[l] > analyzeEPICFramework([call.args EXCEPT !.industry = Absent])[l]

\* C14: the scorers of the stdio server, of epic-scores.js and of class
\* GTMAlphaConsultant search the lower-cased concatenation of challenge text,
\* company description and industry; analyzeEPIC of mcp-sse.js searches
\* challenge text and industry, and its gtm_consultation does not read the
\* company description; analyzeEPICFramework searches the challenge text
\* alone, the industry only selecting a modifier
C14_MatchedTextPerScorer ==
  /\ (call.op \in ThreeFieldScorers /\ ret.status = "returned")
       => /\ CountsKeywordsOf(call.args.gtm_challenge, ret.scores)
          /\ CountsKeywordsOf(call.args.company_description, ret.scores)
          /\ CountsKeywordsOf(call.args.industry, ret.scores)
  /\ Returned("analyzeEPIC")
       => /\ CountsKeywordsOf(call.args.gtm_challenge, ret.scores)
          /\ CountsKeywordsOf(call.args.industry, ret.scores)
  /\ (ToolAnswered("gtm_consultation") /\ call.op = "CallTool")
       => CountsKeywordsOf(DefaultTo(ToolArguments.company_description, EmptyStr),
                           ToolResult.epic_scores)
  /\ (ToolAnswered("gtm_consultation") /\ call.op = "mcpSseHandler")
       => ToolResult = handleToolCall("gtm_consultation",
                                      [ToolArguments EXCEPT !.company_description = Absent])
  /\ (Returned("analyzeEPICFramework") /\ UnlistedIndustry(call.args.industry))
       => ret.scores = analyzeEPICFramework([call.args EXCEPT !.industry = Absent])

\* a keyword of C that appears in the company description only is counted
C14_KeywordInDescription ==
  /\ Returned("analyzeEPICScoresStdio")
  /\ call.args.gtm_challenge = EmptyStr
  /\ call.args.company_description = Str("community")
  /\ call.args.industry = EmptyStr
  /\ ret.scores.C = 1

\* a tools/call request of mcp.js for the tool, with a company and an industry
IsMcpCall(name) ==
  /\ call.op = "mcpHandler"
  /\ call.args.params.name = name
  /\ ~BusinessKeyThrows(call.args.params.arguments)
CalledBusinessKey == generateBusinessKey(call.args.params.arguments)
\* the text of a tool result carried by an HTTP answer of mcp.js
AnswerText(response) == response.body.result.content[1].text
AnsweredFrom(response, record) ==
  /\ response.statusCode = 200
  /\ "result" \in DOMAIN response.body
  /\ AnswerText(response).title = "CONSISTENT BUSINESS ANALYSIS"
  /\ AnswerText(response).consultation_output = record.data.consultation_output
  /\ AnswerText(response).consultation_id = record.consultationId

\* C15: while a consultation is stored for a business key, a
\* gtm_alpha_real_consultation call for that key made less than 30 days after
\* it was stored is answered with the stored output, calls no backend and
\* leaves the consultation store and the progress history as they were; a
\* call made 30 days after it was stored or later is not answered from it
C15_ThirtyDayPersistence ==
  [][(McpToolsCall /\ IsMcpCall("gtm_alpha_real_consultation")
        /\ MapHas(consultationStorage, CalledBusinessKey))
      => LET stored == consultationStorage[CalledBusinessKey]
         IN IF now < stored.timestamp + 30
            THEN /\ AnsweredFrom(ret'.response, stored)
                 /\ invoked' = {}
                 /\ UNCHANGED <<consultationStorage, progressTracking>>
            ELSE ~AnsweredFrom(ret'.response, stored)]_vars

\* a call made 29 days after the consultation was stored has been answered
\* from the store
C15_AnsweredOnDay29 ==
  /\ IsMcpCall("gtm_alpha_real_consultation")
  /\ ret.status = "returned"
  /\ ret.response.statusCode = 200
  /\ AnswerText(ret.response).title = "CONSISTENT BUSINESS ANALYSIS"
  /\ AnswerText(ret.response).daysOld = 29
  /\ call.args.params.arguments.company_name = Str("Acme")

\* C16: a gtm_alpha_real_consultation call with a company and an industry
\* that arrives while nothing is stored enters the handler of analyze.js,
\* and when it answers with a consultation the consultation and exactly one
\* progress record are stored for the business key
C16_BaselineEstablished ==
  [][(McpToolsCall /\ IsMcpCall("gtm_alpha_real_consultation")
        /\ consultationStorage = EmptyMap /\ progressTracking = EmptyMap)
      => /\ "analyze" \in invoked'
         /\ AnswerText(ret'.response).title = "GTM Alpha Real Consultation"
              => /\ MapHas(consultationStorage', CalledBusinessKey)
                 /\ MapHas(progressTracking', CalledBusinessKey)
                 /\ Len(progressTracking'[CalledBusinessKey]) = 1]_vars

\* the call was answered with the error text and nothing was stored; the
\* progress tracker has no baseline
C16_BackendNeverEntered ==
  /\ IsMcpCall("gtm_alpha_real_consultation")
  /\ ret.status = "returned"
  /\ ret.response.statusCode = 200
  /\ AnswerText(ret.response).title = "GTM Alpha Consultation Error"
  /\ invoked = {}
  /\ consultationStorage = EmptyMap
  /\ progressTracking = EmptyMap

\* a request the endpoint cannot serve has been answered: a POST whose body
\* is not JSON, or a method the endpoint does not accept
MalformedAnswered ==
  /\ ret.status = "returned"
  /\ \/ /\ call.op = "analyzeHandler"
        /\ \/ call.args.method \notin {"POST", "OPTIONS"}
           \/ call.args.method = "POST" /\ IsMalformed(call.args.body)
     \/ /\ call.op = "mcpSseHandler"
        /\ \/ call.args.method \notin {"GET", "POST", "OPTIONS"}
           \/ call.args.method = "POST" /\ IsMalformed(call.args.body)
\* HTTP 400 or 405, or a JSON-RPC error carried by an answer that is not 5xx
ClientError(response) ==
  \/ response.status \in {400, 405}
  \/ /\ response.status < 500
     /\ "body" \in DOMAIN response
     /\ "error" \in DOMAIN response.body

\* C17: every request with an unparsable JSON body or a wrong HTTP method is
\* answered with a client error (HTTP 400 or 405, or an MCP protocol
\* error), never with a server error
C17_MalformedRejected == MalformedAnswered => ClientError(ret.response)

\* analyze.js has answered a POST whose body is not JSON with status 500
C17_ParseErrorIs500 ==
  /\ call.op = "analyzeHandler"
  /\ call.args.method = "POST"
  /\ IsMalformed(call.args.body)
  /\ ret.status = "returned"
  /\ ret.response.status = 500
  /\ ret.response.error = "Internal server error"

\* a 5xx status, or a JSON-RPC error in the body of the answer
ReportsFailure(response) ==
  \/ response.statusCode >= 500
  \/ "error" \in DOMAIN response.body

\* C18: a request of mcp.js during which a collaborator failed is answered
\* with a 5xx-equivalent error, and the consultation store and the progress
\* history hold what they held before the request
C18_FailureSurfaces ==
  [][(McpToolsCall /\ failed' # {})
      => /\ ReportsFailure(ret'.response)
         /\ UNCHANGED <<consultationStorage, progressTracking>>]_vars

\* the backend call failed and the request was answered with status 200 and
\* a tool result
C18_FailureAnswered200 ==
  /\ IsMcpCall("gtm_alpha_real_consultation")
  /\ ret.status = "returned"
  /\ failed = {"analyze"}
  /\ ret.response.statusCode = 200
  /\ AnswerText(ret.response).title = "GTM Alpha Consultation Error"

\* C19: once a response has been returned nothing submitted in a request
\* remains stored: no blob is kept and the Maps of mcp.js are empty
C19_NothingKept ==
  ret # Pending => /\ blobs = EmptyMap
                   /\ consultationStorage = EmptyMap
                   /\ progressTracking = EmptyMap

\* a company name submitted to epic-scores.js in an earlier request is read
\* back from the blob store
C19_CompanyNameReadBack ==
  /\ call.op = "epicScoresHandler"
  /\ call.args.method = "GET"
  /\ ret.status = "returned"
  /\ ret.response.status = 200
  /\ "consultation" \in DOMAIN ret.response
  /\ ret.response.consultation.company_name = Str("Acme")

\* one of the three tools is called
ThreeToolsCall ==
  \/ IsToolCall("gtm_consultation")
  \/ IsToolCall("epic_audit")
  \/ IsToolCall("generate_roadmap")

\* C20: a tools/call of gtm_consultation, epic_audit or generate_roadmap
\* leaves the Maps and the blobs as they were and enters no collaborator,
\* and the same call sent again later is answered as it was the first time,
\* whatever was stored in between
C20_ReadOnlyClosedWorld ==
  /\ []((ThreeToolsCall /\ ret # Pending) => invoked = {} /\ failed = {})
  /\ []((probe.kind = "again" /\ ThreeToolsCall /\ ret # Pending)
          => ret = probe.ret)
  /\ [][((McpSse \/ StdioCallTool) /\ ThreeToolsCall) => UNCHANGED server]_vars

\* a gtm_consultation call was answered a second time, 30 days later, after
\* a consultation was stored in mcp.js and a blob was written
C20_AskedAgainAfterWrites ==
  /\ probe.kind = "again"
  /\ probe.between
  /\ ToolAnswered("gtm_consultation")
  /\ call.op = "mcpSseHandler"
  /\ consultationStorage # EmptyMap
  /\ blobs # EmptyMap
  /\ now = PERSISTENCE_DURATION

\* the name each server gives the component
ServerFrameworkName(component) ==
  IF call.op = "mcpSseHandler" THEN sseFrameworkName(component)
  ELSE epicFrameworkName(component)
RoadmapPhases == {"immediate", "short_term", "medium_term"}

\* C21: for every primary_focus in E, P, I, C and every timeframe, the
\* generate_roadmap tool returns the requested timeframe, the full name of
\* the component, an action_plan of exactly the phases immediate, short_term
\* and medium_term, none of them empty, and a non-empty success_metrics list
C21_RoadmapShape ==
  (/\ ToolAnswered("generate_roadmap")
   /\ ToolArguments.primary_focus \in {Str(l) : l \in LetterSet})
    => /\ ToolArguments.timeframe # Absent
            => ToolResult.timeframe = ToolArguments.timeframe
       /\ ToolResult.primary_focus
            = ServerFrameworkName(ToolArguments.primary_focus[1])
       /\ DOMAIN ToolResult.action_plan = RoadmapPhases
       /\ \A ph \in RoadmapPhases : Len(ToolResult.action_plan[ph]) > 0
       /\ "success_metrics" \in DOMAIN ToolResult
       /\ Len(ToolResult.success_metrics) > 0

\* the roadmap mcp-sse.js returned for primary_focus I has no success_metrics
C21_SseRoadmapWithoutMetrics ==
  /\ ToolAnswered("generate_roadmap")
  /\ call.op = "mcpSseHandler"
  /\ ToolArguments.primary_focus = Str("I")
  /\ ToolArguments.timeframe = Str("30-day")
  /\ DOMAIN ToolResult = {"timeframe", "primary_focus", "action_plan"}
  /\ DOMAIN ToolResult.action_plan = RoadmapPhases

TooEarly(response) ==
  /\ response.statusCode = 200
  /\ "result" \in DOMAIN response.body
  /\ AnswerText(response).title = "Progress Check - Too Early"

\* C22: an epic_progress_tracker call for a business with a progress
\* history is refused as too early, entering no backend and appending no
\* record, exactly when fewer than PROGRESS_CHECK_INTERVAL (7) days have
\* passed since the latest record; from the "Next Review Due" day on it is
\* carried out
C22_SevenDayGate ==
  [][(McpToolsCall /\ IsMcpCall("epic_progress_tracker")
        /\ Len(getProgressHistory(CalledBusinessKey)) > 0)
      => LET progressHistory == getProgressHistory(CalledBusinessKey)
             latest == progressHistory[Len(progressHistory)]
         IN /\ TooEarly(ret'.response)
                 <=> now - latest.timestamp < PROGRESS_CHECK_INTERVAL
            /\ TooEarly(ret'.response)
                 => invoked' = {} /\ UNCHANGED progressTracking]_vars

\* a progress check made 7 days after the latest record, the day shown as
\* "Next Review Due", was refused as too early
C22_RefusedOnDay7 ==
  /\ IsMcpCall("epic_progress_tracker")
  /\ ret.status = "returned"
  /\ TooEarly(ret.response)
  /\ AnswerText(ret.response).daysSinceLatest = PROGRESS_CHECK_INTERVAL
  /\ invoked = {}

\* the last n elements of a sequence
LastOf(seq, n) == IF Len(seq) > n THEN SubSeq(seq, Len(seq) - n + 1, Len(seq)) ELSE seq

\* C23: the progress history of every business key holds at most 12
\* records, and they are the most recently added ones, in the order they
\* were added
C23_HistoryBounded ==
  probe.kind = "history"
    => \A businessKey \in DOMAIN probe.added :
         /\ Len(getProgressHistory(businessKey)) <= 12
         /\ getProgressHistory(businessKey) = LastOf(probe.added[businessKey], 12)

\* thirteen records were added for one business, and its history holds the
\* last twelve of them
C23_ThirteenthAdded ==
  /\ probe.kind = "history"
  /\ \E businessKey \in DOMAIN probe.added :
       /\ Len(probe.added[businessKey]) = 13
       /\ Len(getProgressHistory(businessKey)) = 12
       /\ getProgressHistory(businessKey)[1] = probe.added[businessKey][2]

\* an epic-audit POST with a company is being answered
AuditPost ==
  /\ call.op = "epicAuditHandler"
  /\ call.args.method = "POST"
  /\ ~IsMalformed(call.args.body)
  /\ ~Falsy(call.args.body.company)
\* an audit of the company the request names is in the store
AuditOnFile ==
  \E k \in DOMAIN blobs :
    /\ k[1] = "epic-audits"
    /\ blobs[k].auditData.company_id = AuditCompanyId(call.args.body)

\* C24: once an audit of a company is stored, every later epic-audit POST
\* for the same company that the store answers finds it: is_first_audit is
\* false and historical_audits_available is at least 1
C24_AuditFoundAgain ==
  [][(EpicAudit /\ AuditPost /\ AuditOnFile /\ failed' = {})
      => /\ ret'.response.status = 200
         /\ ~ret'.response.body.progress_analysis.is_first_audit
         /\ ret'.response.body.persistence.historical_audits_available >= 1]_vars

\* the second audit of Acme, a week after the first was stored, was answered
\* as a first audit with no historical audits
C24_SecondAuditIsFirst ==
  /\ AuditPost
  /\ call.args.body = [company |-> Str("Acme"), company_id |-> Absent]
  /\ ret.status = "returned"
  /\ ret.response.status = 200
  /\ failed = {}
  /\ now = PROGRESS_CHECK_INTERVAL
  /\ <<"epic-audits", <<"EPIC-AUDIT-", "acme", "-", 0>>>> \in DOMAIN blobs
  /\ ret.response.body.progress_analysis.is_first_audit
  /\ ret.response.body.persistence.historical_audits_available = 0

\* a POST to mcp.js in the legacy format: client_name and company_name, and
\* neither jsonrpc nor action
LegacyPost ==
  /\ call.op = "exportsHandler"
  /\ call.args.httpMethod = "POST"
  /\ ~IsMalformed(call.args.body)
  /\ ~Falsy(call.args.body.client_name)
  /\ ~Falsy(call.args.body.company_name)
  /\ call.args.body.jsonrpc = Absent
  /\ call.args.body.action = Absent

\* C25: every POST to mcp.js in the legacy format is processed as a
\* consultation and answered with HTTP 200 and success true
C25_LegacyServed ==
  (LegacyPost /\ ret.status = "returned")
    => /\ ret.response.statusCode = 200
       /\ ret.response.body.success

\* the documented legacy request {client_name, company_name, gtm_challenge}
\* was answered with 500
C25_LegacyAnswered500 ==
  /\ LegacyPost
  /\ call.args.body = LegacyBody
  /\ ret.status = "returned"
  /\ ret.response.statusCode = 500

PaymentCaptured ==
  /\ call.op = "paymentSuccess"
  /\ ret.status = "returned"
  /\ ret.response.status = 200

\* C26: for every tier and payment frequency, the amount charged less the
\* PayPal fee of 2.9% of it plus $0.30 is at least the base price, the net
\* revenue reported is the base price and markup_covered_fees is true
C26_MarkupCoversFee ==
  PaymentCaptured
    => LET breakdown == ret.response.body.revenue_breakdown
       IN /\ breakdown.gross_received * 1000 - breakdown.paypal_fee
               >= call.args.custom_id.base_price * 1000
          /\ breakdown.your_net_revenue = call.args.custom_id.base_price
          /\ breakdown.markup_covered_fees

\* the premium analysis of $29 was charged $30, PayPal kept $1.17, and the
\* answer reports a net revenue of $29 with markup_covered_fees true
C26_PremiumNetsLess ==
  /\ PaymentCaptured
  /\ call.args.custom_id.tier = Str("premium")
  /\ ret.response.body.revenue_breakdown.gross_received = 30
  /\ ret.response.body.revenue_breakdown.paypal_fee = 1170
  /\ ret.response.body.revenue_breakdown.your_net_revenue = 29
  /\ ret.response.body.revenue_breakdown.markup_covered_fees

\* a gtm_alpha_real_consultation call was answered from the store
AnsweredFromStore ==
  /\ IsMcpCall("gtm_alpha_real_consultation")
  /\ ret.status = "returned"
  /\ ret.response.statusCode = 200
  /\ "result" \in DOMAIN ret.response.body
  /\ AnswerText(ret.response).title = "CONSISTENT BUSINESS ANALYSIS"

\* C27: requests that differ in company_name, industry or business_stage
\* have different business keys, so a call answered from the store is
\* answered with a consultation stored for its own company, industry and
\* stage
C27_IsolatedPerBusiness ==
  /\ \A a \in IsolationArguments, b \in IsolationArguments :
       a # b
         => generateBusinessKey(a) # generateBusinessKey(b)
  /\ AnsweredFromStore
       => LET stored == consultationStorage[CalledBusinessKey].data.client_info
              asked == call.args.params.arguments
          IN /\ stored.company = asked.company_name
             /\ stored.industry = asked.industry
             /\ stored.stage = asked.business_stage

\* a call for the company A+B was answered with the consultation stored for
\* the company A&B
C27_AnsweredForAnotherCompany ==
  /\ AnsweredFromStore
  /\ call.args.params.arguments.company_name = Str("A+B")
  /\ consultationStorage[CalledBusinessKey].data.client_info.company = Str("A&B")
  /\ AnswerText(ret.response).consultation_id
       = consultationStorage[CalledBusinessKey].consultationId

\* a POST to epic-scores.js, or a form submitted through
\* submit-consultation.js, is answered with a consultation id
IdReturned ==
  /\ \/ EpicScores /\ call.args.method = "POST"
     \/ SubmitConsultation
  /\ ret'.response.status = 200
  /\ "consultation_id" \in DOMAIN ret'.response

\* C28: no two POSTs write the same storage key, whatever their
\* interleaving, so the consultation kept under an id a POST returned is
\* the one that POST computed
C28_IdsUnique ==
  [][IdReturned
       => <<"gtm-consultations", ret'.response.consultation_id>>
            \notin DOMAIN blobs]_vars

\* the id GTM-ACM-0 was returned to the form submitted for Acme and then, at
\* the same instant, to a POST for Acmos: a GET with that id answers with the
\* consultation of Acmos
C28_AcmeReadsAcmos ==
  /\ call.op = "epicScoresHandler"
  /\ call.args.method = "GET"
  /\ call.args.consultation_id = <<"GTM", "ACM", 0>>
  /\ ret.status = "returned"
  /\ ret.response.status = 200
  /\ ret.response.consultation.company_name = Str("Acmos")
  /\ MapHas(blobs, <<"consultations", <<"GTM", "ACM", 0>>>>)
  /\ blobs[<<"consultations", <<"GTM", "ACM", 0>>>>].formData.company_name
       = Str("Acme")


\* a JSON-RPC request that parsed and carried an id has been answered by
\* the mcp-sse endpoint with a JSON-RPC response
SseRpcAnswered ==
  /\ call.op = "mcpSseHandler"
  /\ ret.status = "returned"
  /\ call.args.method = "POST"
  /\ ~IsMalformed(call.args.body)
  /\ call.args.body.id \in RequestIds

\* C29: every JSON-RPC response to a request that parsed and carried an id,
\* the error responses for an unknown method and for a tools/call naming an
\* unknown tool included, carries the id of the request it answers
C29_IdEchoed ==
  SseRpcAnswered
    => /\ "jsonrpc" \in DOMAIN ret.response.body
       /\ "id" \in DOMAIN ret.response.body
       /\ ret.response.body.id = call.args.body.id

\* the tools/call with id 2 naming the tool delete_everything was answered
\* 500 with id null
C29_UnknownToolAnsweredNull ==
  /\ SseRpcAnswered
  /\ call.args.body.id = 2
  /\ call.args.body.method = "tools/call"
  /\ call.args.body.params.name = "delete_everything"
  /\ ret.response.status = 500
  /\ ret.response.body.id = JsonNull
  /\ ret.response.body.error.code = JsonRpcParseError


\* a gtm_alpha_real_consultation call found no live consultation under its
\* business key and has been answered
CacheMissAnswered ==
  /\ IsMcpCall("gtm_alpha_real_consultation")
  /\ ret.status = "returned"
  /\ getStoredConsultation(CalledBusinessKey) = Absent

\* C30: on a cache miss the scorer of analyze.js is run, and the stage and
\* the challenge text it is run with are the business_stage and the
\* gtm_challenge of the call
C30_ContextReachesScorer ==
  CacheMissAnswered
    => LET asked == call.args.params.arguments
           scored == scorerContext(analyzeEventBody(asked))
       IN /\ "analyze" \in invoked
          /\ scored.business_stage = asked.business_stage
          /\ scored.gtm_challenge = OrElse(asked.gtm_challenge, EmptyStr)

\* the call for an enterprise-stage business with the challenge text
\* "community" missed the cache; the scorer was not entered, and the request
\* made for it carries the stage as size and the challenge as challenges,
\* which analyze.js reads as stage growth and an empty challenge
C30_ContextLeftBehind ==
  /\ CacheMissAnswered
  /\ call.args.params.arguments.business_stage = Str("enterprise")
  /\ call.args.params.arguments.gtm_challenge = Str("community")
  /\ invoked = {}
  /\ AnswerText(ret.response).title = "GTM Alpha Consultation Error"
  /\ LET sent == analyzeEventBody(call.args.params.arguments)
     IN /\ sent.size = Str("Enterprise")
        /\ sent.challenges = Str("community")
        /\ scorerContext(sent) = [business_stage |-> Str("growth"),
                                  gtm_challenge |-> EmptyStr]

=============================================================================
